---- MODULE Spec2Model ----
(***************************************************************************)
(* A model of aws-identity-management-generator: the fetch phase           *)
(* (scripts/phase1_fetch.py) that normalises a directory snapshot into a   *)
(* record store, and the generation phase (scripts/phase2_generate.py)     *)
(* that renders the record store into an output tree.                      *)
(*                                                                         *)
(* Strings are sequences of one-character strings, so that sanitising,     *)
(* concatenating, prefix tests and sorting are computed as the code        *)
(* computes them.                                                          *)
(***************************************************************************)
EXTENDS Naturals, Integers, Sequences, FiniteSets, TLC

VARIABLES
    sanIn,      \* sanitizer harness: the input string
    sanOnce,    \* sanitize_name(sanIn), once computed
    sanTwice,   \* sanitize_name(sanitize_name(sanIn)), once computed
    returned,   \* loader harness: what the loaders returned, once called
    cfg,        \* the resolved settings of the run
    src,        \* the snapshot the directory / organization source answers with
    env,        \* the surroundings of a run: the order directories list their files in, the registry's latest versions
    pc,         \* the position of the run
    json,       \* the record store: namespace -> (record name -> record)
    mem,        \* the in-memory maps fetch_data passes from step to step
    tf,         \* the output tree: path -> content
    wrote,      \* what the current command has written: record store namespaces and output paths
    prev        \* the output tree at the end of the previous generation run

vars == <<sanIn, sanOnce, sanTwice, returned, cfg, src, env, pc, json, mem, tf, wrote, prev>>

-----------------------------------------------------------------------------
(* Characters and strings *)

Letters == {"a","b","c","d","e","f","g","h","i","j","k","l","m","n","o","p","q","r","s","t","u","v","w","x","y","z",
            "A","B","C","D","E","F","G","H","I","J","K","L","M","N","O","P","Q","R","S","T","U","V","W","X","Y","Z"}
Digits == {"0","1","2","3","4","5","6","7","8","9"}
Whitespace == {" "}

\* re: [a-zA-Z_]
IsFirstChar(c) == c \in Letters \cup {"_"}
\* re: [a-zA-Z0-9_-]
IsNameChar(c) == c \in Letters \cup Digits \cup {"_", "-"}

\* str.strip(): leading and trailing whitespace removed
RECURSIVE LStrip(_)
LStrip(s) == IF s # <<>> /\ Head(s) \in Whitespace THEN LStrip(Tail(s)) ELSE s

RECURSIVE RStrip(_)
RStrip(s) == IF s # <<>> /\ s[Len(s)] \in Whitespace THEN RStrip(SubSeq(s, 1, Len(s) - 1)) ELSE s

Strip(s) == RStrip(LStrip(s))

\* str.startswith(prefix)
StartsWith(s, p) == Len(s) >= Len(p) /\ SubSeq(s, 1, Len(p)) = p

\* the pattern ^[A-Za-z_][A-Za-z0-9_-]*$
ValidName(s) == /\ s # <<>>
                /\ IsFirstChar(s[1])
                /\ \A i \in 1..Len(s) : IsNameChar(s[i])

\* sanitize_name with the leading underscore never added
sanitize_name_noprefix(name) ==
    LET n == Strip(name)
    IN [i \in 1..Len(n) |-> IF IsNameChar(n[i]) THEN n[i] ELSE "_"]

\* sanitize_name with the leading underscore always added
sanitize_name_always(name) ==
    LET n == <<"_">> \o Strip(name)
    IN [i \in 1..Len(n) |-> IF IsNameChar(n[i]) THEN n[i] ELSE "_"]

sanitize_name(name) ==
    LET stripped == Strip(name)
        n == IF stripped # <<>> /\ IsFirstChar(stripped[1]) THEN stripped ELSE <<"_">> \o stripped
    IN [i \in 1..Len(n) |-> IF IsNameChar(n[i]) THEN n[i] ELSE "_"]

-----------------------------------------------------------------------------
(* The sanitizer on its own: every string over SanAlphabet up to MaxLen *)

MaxLen == 3
SanAlphabet == {"a", "Z", "7", "_", "-", " ", "."}

SanInputs == UNION {[1..n -> SanAlphabet] : n \in 0..MaxLen}

NotYet == <<"?">>

-----------------------------------------------------------------------------
(* String constants of the code *)

L_sep == <<"_","_","_">>
L_json == <<".","j","s","o","n">>
L_UnknownGroup == <<"U","n","k","n","o","w","n","G","r","o","u","p">>
L_UnknownUser == <<"U","n","k","n","o","w","n","U","s","e","r">>
L_UnknownAccount == <<"U","n","k","n","o","w","n","A","c","c","o","u","n","t">>
L_UnknownPrincipal == <<"U","n","k","n","o","w","n","P","r","i","n","c","i","p","a","l">>
L_USER == <<"U","S","E","R">>
L_GROUP == <<"G","R","O","U","P">>
L_TEAM_prefix == <<"T","E","A","M","-">>
L_membership_addr == <<"a","w","s","_","i","d","e","n","t","i","t","y","s","t","o","r","e","_","g","r","o","u","p","_","m","e","m","b","e","r","s","h","i","p",".","c","o","n","t","r","o","l","l","e","r","[","\"">>
L_assignment_addr == <<"a","w","s","_","s","s","o","a","d","m","i","n","_","a","c","c","o","u","n","t","_","a","s","s","i","g","n","m","e","n","t",".","c","o","n","t","r","o","l","l","e","r","[","\"">>
L_key_close == <<"\"","]">>

-----------------------------------------------------------------------------
(* Sequences and directories *)

Range(s) == {s[i] : i \in DOMAIN s}

RECURSIVE Concat(_)
\* the concatenation of a sequence of sequences
Concat(ss) == IF ss = <<>> THEN <<>> ELSE Head(ss) \o Concat(Tail(ss))

\* a directory with no file in it
EmptyDir == [k \in {} |-> 0]

\* open(dir/name, "w") and json.dump: the file is created or overwritten
Put(dir, name, rec) == [k \in DOMAIN dir \cup {name} |-> IF k = name THEN rec ELSE dir[k]]

\* dict.get(key, default)
Get(map, key, default) == IF key \in DOMAIN map THEN map[key] ELSE default

\* Path.mkdir(parents=True, exist_ok=True) for each of the namespaces nss
MkDirs(store, nss) == [n \in DOMAIN store \cup nss |-> IF n \in DOMAIN store THEN store[n] ELSE EmptyDir]

\* the parents that mkdir(parents=True) creates along with a namespace
WithParents(ns) ==
    CASE ns = "permission_sets/inline_policies" -> {"permission_sets", ns}
      [] ns = "managed_policies/policies" -> {"managed_policies", ns}
      [] ns = "team/dynamodb_tables" -> {"team", ns}
      [] ns = "team/dynamodb_items" -> {"team", ns}
      [] ns = "team/dynamodb_items/approvers" -> {"team", "team/dynamodb_items", ns}
      [] ns = "team/dynamodb_items/eligibility" -> {"team", "team/dynamodb_items", ns}
      [] OTHER -> {ns}

RECURSIVE DumpInto(_, _, _)
\* the loop of dump_resources_individually: one file per item, named by the
\* item's key, a later item overwriting an earlier one of the same name
DumpInto(dir, resources, key_name) ==
    IF resources = <<>> THEN dir
    ELSE LET item == Head(resources)
             item_id == IF key_name \in DOMAIN item THEN item[key_name] ELSE <<"u","n","k","n","o","w","n">>
             filed == [f \in DOMAIN item \cup {"FileName"} |->
                          IF f = "FileName" THEN item_id \o L_json ELSE item[f]]
         IN DumpInto(Put(dir, item_id, filed), Tail(resources), key_name)

dump_resources_individually(store, resource_type, resources, key_name) ==
    LET made == MkDirs(store, {resource_type})
    IN [made EXCEPT ![resource_type] = DumpInto(made[resource_type], resources, key_name)]

-----------------------------------------------------------------------------
(* The settings of a run *)

\* the resolved settings the two phases read
Configs ==
    [command : {"full", "fetch"},
     state_mode : {"single", "multi"},
     platform : {"local", "tfc"},
     enable_team : BOOLEAN,
     retain_managed_policies : BOOLEAN,
     auto_update_providers : BOOLEAN,
     tfc_org : {"org"},
     prefix : {"aws-identity-management"},
     environment : {""}]

is_team_enabled == cfg.enable_team
is_single_state == cfg.state_mode = "single"
is_multi_state == cfg.state_mode = "multi"
is_tfc == cfg.platform = "tfc"
is_local == cfg.platform = "local"

\* Config.use_managed_policy_data_sources
use_managed_policy_data_sources == FALSE

\* the name with the environment always in it
workspace_name_with_environment(component) ==
    IF cfg.state_mode = "single"
    THEN IF cfg.environment # "" THEN cfg.prefix \o "-" \o cfg.environment ELSE cfg.prefix
    ELSE cfg.prefix \o "-" \o cfg.environment \o "-" \o component

\* Config.get_workspace_name, when it returns
get_workspace_name(component) ==
    IF cfg.state_mode = "single"
    THEN IF cfg.environment # "" THEN cfg.prefix \o "-" \o cfg.environment ELSE cfg.prefix
    ELSE IF cfg.environment # "" THEN cfg.prefix \o "-" \o cfg.environment \o "-" \o component
         ELSE cfg.prefix \o "-" \o component

-----------------------------------------------------------------------------
(* The source: what the directory, organization and policy services answer *)

U1 == <<"u","1">>
U2 == <<"u","2">>
U8 == <<"u","8">>
U9 == <<"u","9">>
G1 == <<"g","1">>
G2 == <<"g","2">>
G9 == <<"g","9">>
A1 == <<"1","1">>
A2 == <<"2","2">>
A3 == <<"3","3">>
P1 == <<"p","/","1">>
P2 == <<"p","/","2">>

\* list_users: jane has an external id, 7x has none
SrcUsers ==
    << [UserId |-> U1, UserName |-> <<"j",".","d">>, ExternalIds |-> << [Issuer |-> <<"s">>, Id |-> <<"x","1">>] >>],
       [UserId |-> U2, UserName |-> <<"7","x">>, ExternalIds |-> <<>>] >>

\* list_groups: "E T" has no external id, ops has one
SrcGroups ==
    << [GroupId |-> G1, DisplayName |-> <<"E"," ","T">>, ExternalIds |-> <<>>],
       [GroupId |-> G2, DisplayName |-> <<"o","p","s">>, ExternalIds |-> << [Issuer |-> <<"s">>, Id |-> <<"x","2">>] >>] >>

\* the memberships the source may hold; u8 and u9 are members no list_users page returned
MembershipPool ==
    << [MembershipId |-> <<"m","1">>, GroupId |-> G1, MemberId |-> [UserId |-> U1]],
       [MembershipId |-> <<"m","2">>, GroupId |-> G1, MemberId |-> [UserId |-> U2]],
       [MembershipId |-> <<"m","3">>, GroupId |-> G1, MemberId |-> [UserId |-> U8]],
       [MembershipId |-> <<"m","4">>, GroupId |-> G1, MemberId |-> [UserId |-> U9]],
       [MembershipId |-> <<"m","5">>, GroupId |-> G2, MemberId |-> [UserId |-> U1]],
       [MembershipId |-> <<"m","6">>, GroupId |-> G2, MemberId |-> [UserId |-> U2]],
       [MembershipId |-> <<"m","7">>, GroupId |-> G2, MemberId |-> [UserId |-> U8]] >>

\* list_accounts: two active accounts and a suspended one
SrcAccounts ==
    << [Id |-> A1, Name |-> <<"P"," ","A">>, Status |-> "ACTIVE"],
       [Id |-> A2, Name |-> <<"d","e","v">>, Status |-> "ACTIVE"],
       [Id |-> A3, Name |-> <<"o","l","d">>, Status |-> "SUSPENDED"] >>

\* list_roots and list_organizational_units_for_parent
SrcRoot == [Id |-> <<"r">>, Name |-> <<"R","o","o","t">>, Arn |-> <<"r","a">>]
SrcOuChildren ==
    (<<"r">> :> << [Id |-> <<"o","1">>, Name |-> <<"O"," ","1">>] >>)
    @@ (<<"o","1">> :> << [Id |-> <<"o","2">>, Name |-> <<"O","2">>] >>)

\* describe_permission_set and the four per-permission-set lookups
SrcPermissionSets ==
    << [PermissionSetArn |-> P1, Name |-> <<"a",".","b">>, SessionDuration |-> <<"P","T","1","H">>],
       [PermissionSetArn |-> P2, Name |-> <<"T","E","A","M","-","x">>, SessionDuration |-> <<"P","T","2","H">>] >>
SrcInlinePolicy == (P1 :> <<"{","}">>) @@ (P2 :> <<>>)
SrcAttachedManaged == (P1 :> << [Name |-> <<"R","O">>, Arn |-> <<"a","/","R","O">>] >>) @@ (P2 :> <<>>)
SrcCustomerManaged == (P1 :> <<>>) @@ (P2 :> << [Name |-> <<"c","m">>, Path |-> <<"/">>] >>)
SrcTags == (P1 :> << [Key |-> <<"k">>, Value |-> <<"v">>] >>) @@ (P2 :> <<>>)

\* list_accounts_for_provisioned_permission_set, per permission set
ProvisionedChoices ==
    { (P1 :> <<A1>>) @@ (P2 :> <<>>),
      (P1 :> <<A1, A3>>) @@ (P2 :> <<A2>>),
      (P1 :> <<>>) @@ (P2 :> <<A1, A2>>) }

\* the account assignments the source may hold; g9 is a group no list_groups page returned
AssignmentPool ==
    << [PermissionSetArn |-> P1, AccountId |-> A1, PrincipalType |-> L_USER, PrincipalId |-> U1],
       [PermissionSetArn |-> P1, AccountId |-> A1, PrincipalType |-> L_GROUP, PrincipalId |-> G9],
       [PermissionSetArn |-> P1, AccountId |-> A2, PrincipalType |-> L_USER, PrincipalId |-> U1],
       [PermissionSetArn |-> P1, AccountId |-> A2, PrincipalType |-> L_GROUP, PrincipalId |-> G1],
       [PermissionSetArn |-> P1, AccountId |-> A3, PrincipalType |-> L_USER, PrincipalId |-> U9],
       [PermissionSetArn |-> P1, AccountId |-> A3, PrincipalType |-> L_GROUP, PrincipalId |-> G1],
       [PermissionSetArn |-> P2, AccountId |-> A1, PrincipalType |-> L_USER, PrincipalId |-> U1],
       [PermissionSetArn |-> P2, AccountId |-> A1, PrincipalType |-> L_GROUP, PrincipalId |-> G1],
       [PermissionSetArn |-> P2, AccountId |-> A2, PrincipalType |-> L_USER, PrincipalId |-> U9],
       [PermissionSetArn |-> P2, AccountId |-> A2, PrincipalType |-> L_GROUP, PrincipalId |-> G9] >>

\* the tables of the team application, its registration and its assignments
SrcTeam ==
    [tables |-> << [TableName |-> <<"A","p","p","r","o","v","e","r","s","-","x","-","m","a","i","n">>, tagged |-> TRUE,
                    items |-> << [name |-> <<"o"," ","u">>, type |-> <<"O","U">>] >>],
                   [TableName |-> <<"E","l","i","g","i","b","i","l","i","t","y","-","x","-","m","a","i","n">>, tagged |-> TRUE,
                    items |-> << [name |-> <<"j",".","d">>, type |-> <<"U","s","e","r">>] >>] >>,
     application |-> << [Name |-> <<"T","E","A","M"," ","I","D","C"," ","A","P","P">>, ApplicationArn |-> <<"a","p","p">>] >>,
     assignments |-> << [PrincipalId |-> U1, PrincipalType |-> L_USER],
                        [PrincipalId |-> G9, PrincipalType |-> L_GROUP] >>]

\* list_policies(Scope="AWS") with each policy's default version document
SrcManagedPolicies ==
    << [PolicyName |-> <<"R","O">>, Arn |-> <<"a","/","R","O">>, Document |-> <<"{","r","}">>] >>

\* how many memberships and assignments a snapshot holds at most
MaxMemberships == 2
MaxAssignments == 2

\* the subsequence of pool at the positions idx
Pick(pool, idx) ==
    LET RECURSIVE pick(_)
        pick(i) == IF i > Len(pool) THEN <<>>
                   ELSE (IF i \in idx THEN <<pool[i]>> ELSE <<>>) \o pick(i + 1)
    IN pick(1)

SubSeqsUpTo(pool, n) == {Pick(pool, idx) : idx \in {x \in SUBSET DOMAIN pool : Cardinality(x) <= n}}

Snapshot(memberships, provisioned, assignments) ==
    [instances |-> << [InstanceArn |-> <<"s","/","i","0">>, IdentityStoreId |-> <<"d","1">>] >>,
     region |-> <<"e","u">>,
     users |-> SrcUsers,
     groups |-> SrcGroups,
     memberships |-> memberships,
     accounts |-> SrcAccounts,
     root |-> SrcRoot,
     ou_children |-> SrcOuChildren,
     permission_sets |-> SrcPermissionSets,
     inline_policy |-> SrcInlinePolicy,
     attached_managed |-> SrcAttachedManaged,
     customer_managed |-> SrcCustomerManaged,
     tags |-> SrcTags,
     provisioned |-> provisioned,
     assignments |-> assignments,
     team |-> SrcTeam,
     managed_policies |-> SrcManagedPolicies]

\* one membership of each kind of group and one assignment on a provisioned account
DefaultMemberships == Pick(MembershipPool, {1, 6})
DefaultProvisioned == (P1 :> <<A1, A3>>) @@ (P2 :> <<A2>>)
DefaultAssignments == Pick(AssignmentPool, {1, 5})
DefaultSnapshot == Snapshot(DefaultMemberships, DefaultProvisioned, DefaultAssignments)

\* the snapshots with every choice of memberships, and those with every choice of
\* provisioning and assignments
Snapshots ==
    {Snapshot(m, DefaultProvisioned, DefaultAssignments) : m \in SubSeqsUpTo(MembershipPool, MaxMemberships)}
    \cup {Snapshot(DefaultMemberships, p, a) : p \in ProvisionedChoices, a \in SubSeqsUpTo(AssignmentPool, MaxAssignments)}

-----------------------------------------------------------------------------
(* Phase 1: fetch_data and the fetch_* steps it calls, one action per step *)

\* a dict updated with further keys
With(rec, extra) == [f \in DOMAIN rec \cup DOMAIN extra |-> IF f \in DOMAIN extra THEN extra[f] ELSE rec[f]]

\* {item[key]: value(item) for item in items}: the last item of a key wins
DictOf(items, key, Value(_)) ==
    [k \in {items[i][key] : i \in DOMAIN items} |->
        Value(items[CHOOSE i \in DOMAIN items :
                        /\ items[i][key] = k
                        /\ \A j \in DOMAIN items : j > i => items[j][key] # k])]

\* the keys of such a dict in the order dict.items() yields them
KeysOf(items, key) ==
    LET RECURSIVE keys(_)
        keys(i) == IF i > Len(items) THEN <<>>
                   ELSE (IF \E j \in 1..(i - 1) : items[j][key] = items[i][key] THEN <<>> ELSE <<items[i][key]>>)
                        \o keys(i + 1)
    IN keys(1)

NameInfo(item) == [ResourceName |-> item.ResourceName, OriginalName |-> item.OriginalName]

\* any("Id" in external_id for external_id in x.get("ExternalIds", []))
HasExternalId(x) ==
    /\ "ExternalIds" \in DOMAIN x
    /\ \E i \in DOMAIN x.ExternalIds : "Id" \in DOMAIN x.ExternalIds[i]

NoStore == [n \in {} |-> EmptyDir]
NoMem ==
    [instance_arn |-> <<>>, identity_store_id |-> <<>>,
     users_map |-> EmptyDir, groups_map |-> EmptyDir, group_ids |-> <<>>, scim_data |-> EmptyDir,
     accounts_map |-> EmptyDir, permission_sets |-> <<>>,
     permission_sets_map |-> EmptyDir, permission_set_arns |-> <<>>]
NoWrites == [json |-> {}, tf |-> {}]

\* where the command goes once fetch_data has returned
AfterFetch == IF cfg.command = "full" THEN "g_start" ELSE "done"

\* fetch_data up to the instance lookup: the record store is removed unless
\* managed policies are retained, and a source without instance ends the fetch
fetch_data_begin ==
    /\ pc = "f_start"
    /\ json' = IF ~cfg.retain_managed_policies THEN NoStore ELSE json
    /\ IF src.instances = <<>>
       THEN /\ pc' = AfterFetch
            /\ mem' = NoMem
       ELSE /\ pc' = "f_sso_admin"
            /\ mem' = [NoMem EXCEPT !.instance_arn = src.instances[1].InstanceArn,
                                    !.identity_store_id = src.instances[1].IdentityStoreId]
    /\ wrote' = NoWrites
    /\ UNCHANGED <<sanIn, sanOnce, sanTwice, returned, cfg, src, env, tf, prev>>

\* instance_arn.split('/')[-1]
RECURSIVE AfterLastSlash(_)
AfterLastSlash(s) ==
    IF \E i \in DOMAIN s : s[i] = "/" THEN AfterLastSlash(Tail(s)) ELSE s

fetch_sso_admin_instance ==
    /\ pc = "f_sso_admin"
    /\ LET sanitized_name == sanitize_name(AfterLastSlash(mem.instance_arn))
           info == [InstanceArn |-> mem.instance_arn, Region |-> src.region, ResourceName |-> sanitized_name]
           made == MkDirs(json, {"sso_admin"})
       IN json' = [made EXCEPT !["sso_admin"] = Put(@, sanitized_name, info)]
    /\ wrote' = [wrote EXCEPT !.json = @ \cup {"sso_admin"}]
    /\ pc' = "f_users"
    /\ UNCHANGED <<sanIn, sanOnce, sanTwice, returned, cfg, src, env, mem, tf, prev>>

UserRecord(u) ==
    LET sanitized_name == sanitize_name(u.UserName)
    IN With(u, [ImportId |-> mem.identity_store_id \o <<"/">> \o u.UserId,
                ImportTo |-> <<"a","w","s","_","i","d","e","n","t","i","t","y","s","t","o","r","e","_","u","s","e","r",".">> \o sanitized_name,
                ResourceName |-> sanitized_name,
                OriginalName |-> u.UserName,
                SCIM |-> HasExternalId(u)])

fetch_users ==
    /\ pc = "f_users"
    /\ LET users == [i \in DOMAIN src.users |-> UserRecord(src.users[i])]
       IN /\ json' = dump_resources_individually(json, "users", users, "ResourceName")
          /\ mem' = [mem EXCEPT !.users_map = DictOf(users, "UserId", NameInfo)]
    /\ wrote' = [wrote EXCEPT !.json = @ \cup {"users"}]
    /\ pc' = "f_groups"
    /\ UNCHANGED <<sanIn, sanOnce, sanTwice, returned, cfg, src, env, tf, prev>>

GroupRecord(g) ==
    LET sanitized_name == sanitize_name(g.DisplayName)
    IN With(g, [ImportId |-> mem.identity_store_id \o <<"/">> \o g.GroupId,
                ImportTo |-> <<"a","w","s","_","i","d","e","n","t","i","t","y","s","t","o","r","e","_","g","r","o","u","p",".">> \o sanitized_name,
                ResourceName |-> sanitized_name,
                OriginalName |-> g.DisplayName,
                SCIM |-> HasExternalId(g)])

ScimOf(g) == g.SCIM

fetch_groups ==
    /\ pc = "f_groups"
    /\ LET groups == [i \in DOMAIN src.groups |-> GroupRecord(src.groups[i])]
       IN /\ json' = dump_resources_individually(json, "groups", groups, "ResourceName")
          /\ mem' = [mem EXCEPT !.groups_map = DictOf(groups, "GroupId", NameInfo),
                                !.group_ids = KeysOf(groups, "GroupId"),
                                !.scim_data = DictOf(groups, "GroupId", ScimOf)]
    /\ wrote' = [wrote EXCEPT !.json = @ \cup {"groups"}]
    /\ pc' = "f_group_memberships"
    /\ UNCHANGED <<sanIn, sanOnce, sanTwice, returned, cfg, src, env, tf, prev>>

\* list_group_memberships(GroupId=group_id): the memberships of one group
ListGroupMemberships(group_id) ==
    SelectSeq(src.memberships, LAMBDA m : m.GroupId = group_id)

\* the placeholders of a group or user id absent from the maps
UnknownGroupInfo == [ResourceName |-> L_UnknownGroup, OriginalName |-> L_UnknownGroup]
UnknownUserInfo == [ResourceName |-> L_UnknownUser, OriginalName |-> L_UnknownUser]

\* the membership name built from the display names instead of the sanitized ones
membership_resource_name_from_originals(group_info, user_info) ==
    sanitize_name(group_info.OriginalName \o L_sep \o user_info.OriginalName)

membership_resource_name(group_info, user_info) ==
    sanitize_name(group_info.ResourceName \o L_sep \o user_info.ResourceName)

membership_import_key(group_info, user_info) ==
    group_info.OriginalName \o L_sep \o user_info.OriginalName

\* the SCIM flag taken from the member's user record instead of the group
membership_scim_of_user(group_id, user_id) ==
    \E n \in DOMAIN json["users"] : json["users"][n].UserId = user_id /\ json["users"][n].SCIM

membership_scim(group_id, user_id) == Get(mem.scim_data, group_id, FALSE)

\* the membership record resolved before the users are in the map
MembershipRecordWithoutUsers(membership) ==
    LET group_info == Get(mem.groups_map, membership.GroupId, UnknownGroupInfo)
        user_info == UnknownUserInfo
    IN With(membership,
            [ImportId |-> mem.identity_store_id \o <<"/">> \o membership.MembershipId,
             ImportTo |-> L_membership_addr \o membership_import_key(group_info, user_info) \o L_key_close,
             ResourceName |-> membership_resource_name(group_info, user_info),
             GroupOriginalName |-> group_info.OriginalName,
             UserOriginalName |-> user_info.OriginalName,
             SCIM |-> membership_scim(membership.GroupId, <<>>)])

MembershipRecord(membership) ==
    LET group_id == membership.GroupId
        member_info == membership.MemberId
        user_id == IF "UserId" \in DOMAIN member_info THEN member_info.UserId ELSE <<>>
        group_info == Get(mem.groups_map, group_id, UnknownGroupInfo)
        user_info == Get(mem.users_map, user_id, UnknownUserInfo)
    IN With(membership,
            [ImportId |-> mem.identity_store_id \o <<"/">> \o membership.MembershipId,
             ImportTo |-> L_membership_addr \o membership_import_key(group_info, user_info) \o L_key_close,
             ResourceName |-> membership_resource_name(group_info, user_info),
             GroupOriginalName |-> group_info.OriginalName,
             UserOriginalName |-> user_info.OriginalName,
             SCIM |-> membership_scim(group_id, user_id)])

fetch_group_memberships ==
    /\ pc = "f_group_memberships"
    /\ LET listed == Concat([i \in DOMAIN mem.group_ids |-> ListGroupMemberships(mem.group_ids[i])])
           all_memberships == [i \in DOMAIN listed |-> MembershipRecord(listed[i])]
       IN json' = dump_resources_individually(json, "group_memberships", all_memberships, "ResourceName")
    /\ wrote' = [wrote EXCEPT !.json = @ \cup {"group_memberships"}]
    /\ pc' = "f_accounts"
    /\ UNCHANGED <<sanIn, sanOnce, sanTwice, returned, cfg, src, env, mem, tf, prev>>

AccountRecord(acct) ==
    LET original_name == IF "Name" \in DOMAIN acct THEN acct.Name ELSE L_UnknownAccount
    IN With(acct, [OriginalName |-> original_name, ResourceName |-> sanitize_name(original_name)])

fetch_accounts ==
    /\ pc = "f_accounts"
    /\ LET active == SelectSeq(src.accounts, LAMBDA acct : acct.Status = "ACTIVE")
           accounts == [i \in DOMAIN active |-> AccountRecord(active[i])]
       IN /\ json' = dump_resources_individually(json, "accounts", accounts, "ResourceName")
          /\ mem' = [mem EXCEPT !.accounts_map = DictOf(accounts, "Id", NameInfo)]
    /\ wrote' = [wrote EXCEPT !.json = @ \cup {"accounts"}]
    /\ pc' = "f_organizational_units"
    /\ UNCHANGED <<sanIn, sanOnce, sanTwice, returned, cfg, src, env, tf, prev>>

\* the deepest level fetch_children_ous descends to
OU_MAX_DEPTH == 5

RECURSIVE fetch_children_ous_of_all(_, _, _)
\* the descent without its depth limit
fetch_children_ous_of_all(parent_id, parent_path, depth) ==
    LET kids == Get(src.ou_children, parent_id, <<>>)
        Visit(ou0) ==
            LET ou == With(ou0, [Depth |-> depth, ParentPath |-> parent_path,
                                 FullPath |-> parent_path \o <<"/">> \o ou0.Name])
            IN <<ou>> \o fetch_children_ous_of_all(ou.Id, ou.FullPath, depth + 1)
    IN Concat([i \in DOMAIN kids |-> Visit(kids[i])])

RECURSIVE fetch_children_ous(_, _, _)
\* the units under a parent, each followed by its own descendants
fetch_children_ous(parent_id, parent_path, depth) ==
    LET kids == Get(src.ou_children, parent_id, <<>>)
        Visit(ou0) ==
            LET ou_name == IF "Name" \in DOMAIN ou0 THEN ou0.Name ELSE <<"U","n","k","n","o","w","n","O","U">>
                ou == With(ou0, [Depth |-> depth, ParentPath |-> parent_path,
                                 FullPath |-> parent_path \o <<"/">> \o ou_name])
            IN <<ou>> \o (IF depth < OU_MAX_DEPTH
                          THEN fetch_children_ous(ou.Id, ou.FullPath, depth + 1)
                          ELSE <<>>)
    IN Concat([i \in DOMAIN kids |-> Visit(kids[i])])

fetch_organizational_units ==
    /\ pc = "f_organizational_units"
    /\ LET root == src.root
           root_name == IF "Name" \in DOMAIN root THEN root.Name ELSE <<"R","o","o","t">>
           root_entry == [Id |-> root.Id, Name |-> root_name,
                          Arn |-> IF "Arn" \in DOMAIN root THEN root.Arn ELSE <<>>,
                          Depth |-> 0, ParentPath |-> <<>>, FullPath |-> root_name,
                          OriginalName |-> root_name, ResourceName |-> sanitize_name(root_name)]
           below == fetch_children_ous(root.Id, root_name, 1)
           named == [i \in DOMAIN below |->
                        LET original_name == IF "Name" \in DOMAIN below[i] THEN below[i].Name
                                             ELSE <<"U","n","k","n","o","w","n","O","U">>
                        IN With(below[i], [OriginalName |-> original_name,
                                           ResourceName |-> sanitize_name(original_name)])]
       IN json' = dump_resources_individually(json, "organizational_units", <<root_entry>> \o named, "ResourceName")
    /\ wrote' = [wrote EXCEPT !.json = @ \cup {"organizational_units"}]
    /\ pc' = "f_permission_sets"
    /\ UNCHANGED <<sanIn, sanOnce, sanTwice, returned, cfg, src, env, mem, tf, prev>>

PermissionSetRecord(ps) ==
    LET raw_name == IF "Name" \in DOMAIN ps /\ ps.Name # <<>> THEN ps.Name
                    ELSE <<"U","n","n","a","m","e","d","P","e","r","m","i","s","s","i","o","n","S","e","t">>
        sanitized_name == sanitize_name(raw_name)
    IN With(ps, [ResourceName |-> sanitized_name,
                 ImportId |-> ps.PermissionSetArn \o <<",">> \o mem.instance_arn,
                 ImportTo |-> <<"a","w","s","_","s","s","o","a","d","m","i","n","_","p","e","r","m","i","s","s","i","o","n","_","s","e","t",".">> \o sanitized_name])

ResourceNameOf(item) == item.ResourceName

\* fetch_permission_sets up to its first dump: list, describe, name, persist
fetch_permission_sets ==
    /\ pc = "f_permission_sets"
    /\ LET permission_sets == [i \in DOMAIN src.permission_sets |-> PermissionSetRecord(src.permission_sets[i])]
           filed == [i \in DOMAIN permission_sets |->
                        With(permission_sets[i], [FileName |-> permission_sets[i].ResourceName \o L_json])]
       IN /\ json' = dump_resources_individually(json, "permission_sets", permission_sets, "ResourceName")
          /\ mem' = [mem EXCEPT !.permission_sets = filed,
                                !.permission_sets_map = DictOf(filed, "PermissionSetArn", ResourceNameOf),
                                !.permission_set_arns = KeysOf(filed, "PermissionSetArn")]
    /\ wrote' = [wrote EXCEPT !.json = @ \cup {"permission_sets"}]
    /\ pc' = "f_inline_policies"
    /\ UNCHANGED <<sanIn, sanOnce, sanTwice, returned, cfg, src, env, tf, prev>>

\* the record files left as they are
RewriteNone(dir, permission_sets) == dir

RECURSIVE RewriteAll(_, _)
\* the "update the JSON files" loop of an enrichment pass
RewriteAll(dir, permission_sets) ==
    IF permission_sets = <<>> THEN dir
    ELSE RewriteAll(Put(dir, Head(permission_sets).ResourceName, Head(permission_sets)), Tail(permission_sets))

\* the inline policy of a permission set: none when the lookup finds nothing
InlinePolicyOf(ps_arn) == Get(src.inline_policy, ps_arn, <<>>)

RECURSIVE WriteInlinePolicies(_, _)
WriteInlinePolicies(dir, permission_sets) ==
    IF permission_sets = <<>> THEN dir
    ELSE LET ps == Head(permission_sets)
             policy == InlinePolicyOf(ps.PermissionSetArn)
         IN WriteInlinePolicies(IF policy # <<>> THEN Put(dir, ps.ResourceName, policy) ELSE dir,
                                Tail(permission_sets))

fetch_inline_policies ==
    /\ pc = "f_inline_policies"
    /\ LET made == MkDirs(json, WithParents("permission_sets/inline_policies"))
       IN json' = [made EXCEPT !["permission_sets/inline_policies"] = WriteInlinePolicies(@, mem.permission_sets)]
    /\ mem' = [mem EXCEPT !.permission_sets =
                  [i \in DOMAIN @ |-> With(@[i], [HasInlinePolicy |-> InlinePolicyOf(@[i].PermissionSetArn) # <<>>])]]
    /\ wrote' = [wrote EXCEPT !.json = @ \cup {"permission_sets/inline_policies"}]
    /\ pc' = "f_managed_policy_attachments"
    /\ UNCHANGED <<sanIn, sanOnce, sanTwice, returned, cfg, src, env, tf, prev>>

fetch_managed_policy_attachments ==
    /\ pc = "f_managed_policy_attachments"
    /\ LET Attached(ps) ==
               LET listed == src.attached_managed[ps.PermissionSetArn]
               IN [i \in DOMAIN listed |-> [Name |-> listed[i].Name, Arn |-> listed[i].Arn]]
           permission_sets == [i \in DOMAIN mem.permission_sets |->
                                  With(mem.permission_sets[i], [ManagedPolicies |-> Attached(mem.permission_sets[i])])]
       IN /\ mem' = [mem EXCEPT !.permission_sets = permission_sets]
          /\ json' = [json EXCEPT !["permission_sets"] = RewriteAll(@, permission_sets)]
    /\ wrote' = [wrote EXCEPT !.json = @ \cup {"permission_sets"}]
    /\ pc' = "f_customer_managed_policy_attachments"
    /\ UNCHANGED <<sanIn, sanOnce, sanTwice, returned, cfg, src, env, tf, prev>>

fetch_customer_managed_policy_attachments ==
    /\ pc = "f_customer_managed_policy_attachments"
    /\ LET Names(ps) ==
               LET listed == src.customer_managed[ps.PermissionSetArn]
               IN [i \in DOMAIN listed |-> listed[i].Name]
           permission_sets == [i \in DOMAIN mem.permission_sets |->
                                  With(mem.permission_sets[i], [CustomerManagedPolicies |-> Names(mem.permission_sets[i])])]
       IN /\ mem' = [mem EXCEPT !.permission_sets = permission_sets]
          /\ json' = [json EXCEPT !["permission_sets"] = RewriteAll(@, permission_sets)]
    /\ wrote' = [wrote EXCEPT !.json = @ \cup {"permission_sets"}]
    /\ pc' = "f_permission_set_tags"
    /\ UNCHANGED <<sanIn, sanOnce, sanTwice, returned, cfg, src, env, tf, prev>>

fetch_permission_set_tags ==
    /\ pc = "f_permission_set_tags"
    /\ LET permission_sets == [i \in DOMAIN mem.permission_sets |->
                                  With(mem.permission_sets[i],
                                       [Tags |-> Get(src.tags, mem.permission_sets[i].PermissionSetArn, <<>>)])]
       IN /\ mem' = [mem EXCEPT !.permission_sets = permission_sets]
          /\ json' = [json EXCEPT !["permission_sets"] = RewriteAll(@, permission_sets)]
    /\ wrote' = [wrote EXCEPT !.json = @ \cup {"permission_sets"}]
    /\ pc' = "f_account_assignments"
    /\ UNCHANGED <<sanIn, sanOnce, sanTwice, returned, cfg, src, env, tf, prev>>

\* every account of the organization, provisioned or not
every_account(ps_arn) == [i \in DOMAIN src.accounts |-> src.accounts[i].Id]

\* list_accounts_for_provisioned_permission_set, all pages
provisioned_accounts(ps_arn) == Get(src.provisioned, ps_arn, <<>>)

\* list_account_assignments(AccountId, PermissionSetArn), all pages
ListAccountAssignments(account_id, ps_arn) ==
    SelectSeq(src.assignments, LAMBDA a : a.AccountId = account_id /\ a.PermissionSetArn = ps_arn)

\* the placeholder of an id absent from a map: the kind followed by the id
Unknown(kind, id) == [ResourceName |-> kind \o <<"_">> \o id, OriginalName |-> kind \o <<"_">> \o id]

PrincipalInfo(principal_type, principal_id) ==
    IF principal_type = L_USER THEN Get(mem.users_map, principal_id, Unknown(L_UnknownUser, principal_id))
    ELSE IF principal_type = L_GROUP THEN Get(mem.groups_map, principal_id, Unknown(L_UnknownGroup, principal_id))
    ELSE Unknown(L_UnknownPrincipal, principal_id)

\* the import key with the principal's sanitized name in place of its display name
assignment_import_key_sanitized(account_info, ps_res_name, principal_type, principal_info) ==
    account_info.OriginalName \o L_sep \o ps_res_name \o L_sep \o principal_type \o L_sep \o principal_info.ResourceName

assignment_import_key(account_info, ps_res_name, principal_type, principal_info) ==
    account_info.OriginalName \o L_sep \o ps_res_name \o L_sep \o principal_type \o L_sep \o principal_info.OriginalName

AssignmentRecord(assignment, ps_arn, ps_res_name, account_id) ==
    LET account_info == Get(mem.accounts_map, account_id, Unknown(L_UnknownAccount, account_id))
        principal_id == assignment.PrincipalId
        principal_type == assignment.PrincipalType
        principal_info == PrincipalInfo(principal_type, principal_id)
        combined_name == account_info.ResourceName \o L_sep \o ps_res_name \o L_sep
                         \o principal_type \o L_sep \o principal_info.ResourceName
    IN With(assignment,
            [PrincipalName |-> principal_info.OriginalName,
             PrincipalResourceName |-> principal_info.ResourceName,
             PermissionSetName |-> ps_res_name,
             AccountName |-> account_info.OriginalName,
             ResourceName |-> sanitize_name(combined_name),
             ImportId |-> principal_id \o <<",">> \o principal_type \o <<",">> \o account_id \o <<",">>
                          \o <<"A","W","S","_","A","C","C","O","U","N","T">> \o <<",">> \o ps_arn
                          \o <<",">> \o mem.instance_arn,
             ImportTo |-> L_assignment_addr
                          \o assignment_import_key(account_info, ps_res_name, principal_type, principal_info)
                          \o L_key_close])

fetch_account_assignments ==
    /\ pc = "f_account_assignments"
    /\ LET ForAccount(ps_arn, account_id) ==
               LET listed == ListAccountAssignments(account_id, ps_arn)
               IN [i \in DOMAIN listed |->
                      AssignmentRecord(listed[i], ps_arn, mem.permission_sets_map[ps_arn], account_id)]
           ForPermissionSet(ps_arn) ==
               LET accts == provisioned_accounts(ps_arn)
               IN Concat([i \in DOMAIN accts |-> ForAccount(ps_arn, accts[i])])
           all_assignments == Concat([i \in DOMAIN mem.permission_set_arns |->
                                         ForPermissionSet(mem.permission_set_arns[i])])
       IN json' = dump_resources_individually(json, "account_assignments", all_assignments, "ResourceName")
    /\ wrote' = [wrote EXCEPT !.json = @ \cup {"account_assignments"}]
    /\ pc' = "f_team"
    /\ UNCHANGED <<sanIn, sanOnce, sanTwice, returned, cfg, src, env, mem, tf, prev>>

-----------------------------------------------------------------------------
(* String order, as sorted() and str.lower() compute it *)

\* the printable characters in code point order, from 32 on (the grave accent,
\* which no name of the model holds, left out)
Ascii == <<" ","!","\"","#","$","%","&","'","(",")","*","+",",","-",".","/","0","1","2","3","4","5","6","7","8","9",":",";","<","=",">","?","@","A","B","C","D","E","F","G","H","I","J","K","L","M","N","O","P","Q","R","S","T","U","V","W","X","Y","Z","[","\\","]","^","_","a","b","c","d","e","f","g","h","i","j","k","l","m","n","o","p","q","r","s","t","u","v","w","x","y","z","{","|","}","~">>

Code(c) == CHOOSE i \in DOMAIN Ascii : Ascii[i] = c

\* str.lower()
Lower(s) == [i \in DOMAIN s |-> IF Code(s[i]) \in Code("A")..Code("Z") THEN Ascii[Code(s[i]) + (Code("a") - Code("A"))] ELSE s[i]]

\* a < b for two strings: decided by the code points at the first position where
\* they differ, and by the lengths when one is the start of the other
StrLess(a, b) ==
    LET differ == {i \in DOMAIN a \cap DOMAIN b : a[i] # b[i]}
    IN IF differ = {} THEN Len(a) < Len(b)
       ELSE \E i \in differ : (\A j \in differ : i <= j) /\ Code(a[i]) < Code(b[i])

RECURSIVE SortOrder(_)
\* the positions of keys in the order sorted() puts them: stable, equal keys keep
\* their order
SortOrder(keys) ==
    IF keys = <<>> THEN <<>>
    ELSE LET m == Len(keys)
             rest == SortOrder(SubSeq(keys, 1, m - 1))
             \* the last goes after every one whose key is not greater than its own
             n == Cardinality({i \in DOMAIN rest : ~StrLess(keys[m], keys[rest[i]])})
         IN SubSeq(rest, 1, n) \o <<m>> \o SubSeq(rest, n + 1, Len(rest))

\* sorted(items, key=Key)
SortedBy(items, Key(_)) ==
    LET order == SortOrder([i \in DOMAIN items |-> Key(items[i])])
    IN [i \in DOMAIN items |-> items[order[i]]]

-----------------------------------------------------------------------------
(* Phase 1, continued: the team data and the managed policies *)

EndsWith(s, suffix) == Len(s) >= Len(suffix) /\ SubSeq(s, Len(s) - Len(suffix) + 1, Len(s)) = suffix

\* ^Approvers-.*-main$ and ^Eligibility-.*-main$
IsApproversTable(table_name) ==
    /\ StartsWith(table_name, <<"A","p","p","r","o","v","e","r","s","-">>)
    /\ EndsWith(table_name, <<"-","m","a","i","n">>)
    /\ Len(table_name) >= 15
IsEligibilityTable(table_name) ==
    /\ StartsWith(table_name, <<"E","l","i","g","i","b","i","l","i","t","y","-">>)
    /\ EndsWith(table_name, <<"-","m","a","i","n">>)
    /\ Len(table_name) >= 17

TeamItemRecord(item) ==
    LET sanitized_name == sanitize_name(IF "name" \in DOMAIN item THEN item.name ELSE <<"u","n","k","n","o","w","n">>)
        type == IF "type" \in DOMAIN item THEN item.type ELSE <<"u","n","k","n","o","w","n">>
    IN With(item, [ResourceName |-> type \o L_sep \o sanitized_name, SanitizedName |-> sanitized_name])

RECURSIVE PutAll(_, _)
\* one file per item, named by its ResourceName
PutAll(dir, items) ==
    IF items = <<>> THEN dir ELSE PutAll(Put(dir, Head(items).ResourceName, Head(items)), Tail(items))

RECURSIVE WriteTables(_, _)
\* the table loop of fetch_dynamodb_tables: metadata and items of each tagged matching table
WriteTables(store, tables) ==
    IF tables = <<>> THEN store
    ELSE LET t == Head(tables)
             matches == IsApproversTable(t.TableName) \/ IsEligibilityTable(t.TableName)
             subdir == IF IsApproversTable(t.TableName) THEN "team/dynamodb_items/approvers"
                       ELSE "team/dynamodb_items/eligibility"
             items == [i \in DOMAIN t.items |-> TeamItemRecord(t.items[i])]
             made == MkDirs(store, WithParents(subdir))
             written == [made EXCEPT !["team/dynamodb_tables"] =
                                         Put(@, sanitize_name(t.TableName), [Table |-> t.TableName, Tags |-> t.tagged]),
                                     ![subdir] = PutAll(@, items)]
         IN WriteTables(IF matches /\ t.tagged THEN written ELSE store, Tail(tables))

fetch_dynamodb_tables(store) ==
    WriteTables(MkDirs(store, {"team", "team/dynamodb_tables", "team/dynamodb_items"}), src.team.tables)

\* describe_user / describe_group of a principal id: the name, or nothing when the lookup fails
DescribePrincipal(principal_type, principal_id) ==
    IF principal_type = L_USER
    THEN SelectSeq([i \in DOMAIN src.users |-> IF src.users[i].UserId = principal_id THEN src.users[i].UserName ELSE <<>>],
                   LAMBDA n : n # <<>>)
    ELSE IF principal_type = L_GROUP
    THEN SelectSeq([i \in DOMAIN src.groups |-> IF src.groups[i].GroupId = principal_id THEN src.groups[i].DisplayName ELSE <<>>],
                   LAMBDA n : n # <<>>)
    ELSE <<>>

Identity(x) == x

\* the sort key (PrincipalType, PrincipalName or ''), the two parts kept apart by a
\* character below every other
AssignmentDetailKey(d) == d.PrincipalType \o <<" ">> \o (IF "PrincipalName" \in DOMAIN d THEN d.PrincipalName ELSE <<>>)

fetch_team_application_assignments(store, application_arn) ==
    LET assignments == src.team.assignments
        Detail(a) ==
            LET names == DescribePrincipal(a.PrincipalType, a.PrincipalId)
                base == [PrincipalId |-> a.PrincipalId, PrincipalType |-> a.PrincipalType,
                         ApplicationArn |-> application_arn]
            IN IF names # <<>> THEN With(base, [PrincipalName |-> names[1]]) ELSE base
        NamesOf(principal_type) ==
            Concat([i \in DOMAIN assignments |->
                       IF assignments[i].PrincipalType = principal_type
                       THEN (LET names == DescribePrincipal(principal_type, assignments[i].PrincipalId)
                             IN IF names = <<>> THEN <<>> ELSE <<names[1]>>)
                       ELSE <<>>])
        resolved_assignments ==
            [users |-> SortedBy(NamesOf(L_USER), Identity),
             groups |-> SortedBy(NamesOf(L_GROUP), Identity),
             assignments |-> SortedBy([i \in DOMAIN assignments |-> Detail(assignments[i])], AssignmentDetailKey)]
    IN [store EXCEPT !["team"] =
           Put(@, <<"t","e","a","m","_","a","p","p","l","i","c","a","t","i","o","n","_","a","s","s","i","g","n","m","e","n","t","s">>,
               resolved_assignments)]

fetch_team_application(store) ==
    LET apps == SelectSeq(src.team.application,
                          LAMBDA app : "Name" \in DOMAIN app /\ app.Name = <<"T","E","A","M"," ","I","D","C"," ","A","P","P">>)
        made == MkDirs(store, {"team"})
        with_app == [made EXCEPT !["team"] =
                        Put(@, <<"t","e","a","m","_","a","p","p","l","i","c","a","t","i","o","n">>, apps[1])]
    IN IF apps = <<>> THEN store
       ELSE fetch_team_application_assignments(with_app, apps[1].ApplicationArn)

\* the record store with the team data fetched whatever the settings say
fetch_team_always(store) == fetch_team_application(fetch_dynamodb_tables(store))

\* the team branch of fetch_data
fetch_team(store) ==
    IF is_team_enabled THEN fetch_team_application(fetch_dynamodb_tables(store)) ELSE store

TeamNamespaces ==
    {"team", "team/dynamodb_tables", "team/dynamodb_items",
     "team/dynamodb_items/approvers", "team/dynamodb_items/eligibility"}

fetch_data_team ==
    /\ pc = "f_team"
    /\ json' = fetch_team(json)
    /\ wrote' = [wrote EXCEPT !.json = @ \cup {n \in DOMAIN json' : n \notin DOMAIN json \/ json'[n] # json[n]}]
    /\ pc' = "f_managed_policies"
    /\ UNCHANGED <<sanIn, sanOnce, sanTwice, returned, cfg, src, env, mem, tf, prev>>

RECURSIVE WriteManagedPolicies(_, _)
WriteManagedPolicies(store, policies) ==
    IF policies = <<>> THEN store
    ELSE LET policy == Head(policies)
             meta == [f \in DOMAIN policy \ {"Document"} |-> policy[f]]
         IN WriteManagedPolicies(
                [store EXCEPT !["managed_policies"] = Put(@, policy.PolicyName, meta),
                              !["managed_policies/policies"] = Put(@, policy.PolicyName, policy.Document)],
                Tail(policies))

\* the last step of fetch_data: the managed policies, unless they are retained
fetch_managed_policies ==
    /\ pc = "f_managed_policies"
    /\ IF ~cfg.retain_managed_policies
       THEN /\ json' = WriteManagedPolicies(MkDirs(json, WithParents("managed_policies/policies")),
                                            src.managed_policies)
            /\ wrote' = [wrote EXCEPT !.json = @ \cup {"managed_policies", "managed_policies/policies"}]
       ELSE UNCHANGED <<json, wrote>>
    /\ pc' = AfterFetch
    /\ UNCHANGED <<sanIn, sanOnce, sanTwice, returned, cfg, src, env, mem, tf, prev>>

-----------------------------------------------------------------------------
(* Phase 2: reading the record store *)

\* the names of a directory in ascending order
Ascending(names) ==
    [i \in 1..Cardinality(names) |->
        CHOOSE n \in names : Cardinality({m \in names : StrLess(m, n)}) = i - 1]

Reverse(s) == [i \in DOMAIN s |-> s[Len(s) + 1 - i]]

\* directory.glob("*.json"): the file names (without the .json) in the order the
\* file system lists them
Glob(dir) ==
    IF env.listing = "asc" THEN Ascending(DOMAIN dir) ELSE Reverse(Ascending(DOMAIN dir))

\* the listing as it comes, with no sorting
unsorted_files(dir) == Glob(dir)

\* the listing sorted by the lower-cased record name, without the .json
sorted_files_by_stem(dir) == SortedBy(Glob(dir), LAMBDA n : Lower(n))

\* sorted(directory.glob("*.json"), key=lambda f: f.name.lower())
sorted_files(dir) == SortedBy(Glob(dir), LAMBDA n : Lower(n \o L_json))

\* what a loader gives when it raises
Raised == [failed |-> TRUE, value |-> <<>>]
Loaded(value) == [failed |-> FALSE, value |-> value]

\* the loader without the check of the required fields
load_json_files_unchecked(directory, required_fields, allow_missing) ==
    IF directory \notin DOMAIN json
    THEN IF allow_missing THEN Loaded(<<>>) ELSE Raised
    ELSE LET files == sorted_files(json[directory])
         IN Loaded([i \in DOMAIN files |-> json[directory][files[i]]])

load_json_files(directory, required_fields, allow_missing) ==
    IF directory \notin DOMAIN json
    THEN IF allow_missing THEN Loaded(<<>>) ELSE Raised
    ELSE LET files == sorted_files(json[directory])
             items == [i \in DOMAIN files |-> json[directory][files[i]]]
         IN IF \E i \in DOMAIN items : ~(required_fields \subseteq DOMAIN items[i])
            THEN Raised ELSE Loaded(items)

\* the position of the first occurrence of sep in s, 0 when there is none
FindFirst(s, sep) ==
    LET hits == {i \in 1..(Len(s) + 1 - Len(sep)) : SubSeq(s, i, i + Len(sep) - 1) = sep}
    IN IF hits = {} THEN 0 ELSE CHOOSE i \in hits : \A j \in hits : i <= j

\* a dict in insertion order: a sequence of [key, value] entries with distinct keys
HasKey(dict, key) == \E i \in DOMAIN dict : dict[i].key = key
ValueAt(dict, key) == dict[CHOOSE i \in DOMAIN dict : dict[i].key = key].value

RECURSIVE GroupInto(_, _)
\* the loop of load_membership_files over the files still to read
GroupInto(memberships, entries) ==
    IF entries = <<>> THEN memberships
    ELSE LET e == Head(entries)
             with_group == IF HasKey(memberships, e.key) THEN memberships
                           ELSE Append(memberships, [key |-> e.key, value |-> <<>>])
         IN GroupInto([i \in DOMAIN with_group |->
                          IF with_group[i].key = e.key
                          THEN [key |-> e.key, value |-> Append(with_group[i].value, e.value)]
                          ELSE with_group[i]],
                      Tail(entries))

load_membership_files(directory) ==
    IF directory \notin DOMAIN json THEN Raised
    ELSE LET files == sorted_files(json[directory])
             Entry(stem) ==
                 LET data == json[directory][stem]
                     at == FindFirst(stem, L_sep)
                     group_name == SubSeq(stem, 1, at - 1)
                     user_name == SubSeq(stem, at + Len(L_sep), Len(stem))
                 IN [key |-> Get(data, "GroupOriginalName", group_name),
                     value |-> [ResourceName |-> user_name,
                                OriginalName |-> Get(data, "UserOriginalName", user_name),
                                SCIM |-> Get(data, "SCIM", FALSE),
                                ImportId |-> Get(data, "ImportId", <<>>),
                                ImportTo |-> Get(data, "ImportTo", <<>>)]]
         IN IF \E i \in DOMAIN files : FindFirst(files[i], L_sep) = 0
            THEN Raised
            ELSE Loaded(GroupInto(<<>>, [i \in DOMAIN files |-> Entry(files[i])]))

load_managed_policy_attachments(directory, required_fields) ==
    IF directory \notin DOMAIN json THEN Raised
    ELSE LET files == sorted_files(json[directory])
             items == [i \in DOMAIN files |-> json[directory][files[i]]]
             Attachment(data) ==
                 LET import_id == data.ImportId
                     comma == FindFirst(import_id, <<",">>)
                     \* instance_arn, permission_set_arn = import_id.split(",", maxsplit=1)
                     instance_arn == SubSeq(import_id, 1, comma - 1)
                     permission_set_arn == SubSeq(import_id, comma + 1, Len(import_id))
                     managed_policies == Get(data, "ManagedPolicies", <<>>)
                 IN [key |-> data.ResourceName,
                     value |-> [i \in DOMAIN managed_policies |->
                                   [Name |-> managed_policies[i].Name, Arn |-> managed_policies[i].Arn,
                                    PermissionSetArn |-> permission_set_arn, InstanceArn |-> instance_arn]]]
             all == [i \in DOMAIN items |-> Attachment(items[i])]
         IN IF \E i \in DOMAIN items :
                   \/ ~((required_fields \cup {"ResourceName", "ImportId"}) \subseteq DOMAIN items[i])
                   \/ FindFirst(items[i].ImportId, <<",">>) = 0
            THEN Raised
            ELSE Loaded(SelectSeq(all, LAMBDA a : a.value # <<>>))

load_account_assignments(directory, required_fields) ==
    IF directory \notin DOMAIN json THEN Raised
    ELSE LET files == sorted_files(json[directory])
             items == [i \in DOMAIN files |-> json[directory][files[i]]]
         IN IF \E i \in DOMAIN items : ~((required_fields \cup {"ResourceName"}) \subseteq DOMAIN items[i])
            THEN Raised ELSE Loaded(items)

\* an assignment of a TEAM- permission set
IsTeamAssignment(a) == StartsWith(a.PermissionSetName, L_TEAM_prefix)

\* an assignment that the generated configuration leaves out
IsSkippedAssignment(a) ==
    StartsWith(a.PermissionSetName, L_TEAM_prefix) \/ StartsWith(a.AccountName, L_UnknownAccount)

RECURSIVE build_account_assignments_map_of_all(_)
\* the map with no assignment left out
build_account_assignments_map_of_all(assignments) ==
    IF assignments = <<>> THEN <<>>
    ELSE LET a == assignments[Len(assignments)]
             result == build_account_assignments_map_of_all(SubSeq(assignments, 1, Len(assignments) - 1))
             Upsert(dict, key, Empty, Change(_)) ==
                 LET with_key == IF HasKey(dict, key) THEN dict ELSE Append(dict, [key |-> key, value |-> Empty])
                 IN [i \in DOMAIN with_key |->
                        IF with_key[i].key = key THEN [key |-> key, value |-> Change(with_key[i].value)]
                        ELSE with_key[i]]
             AddName(names) == Append(names, a.PrincipalName)
             AddType(types) == Upsert(types, a.PrincipalType, <<>>, AddName)
             AddPermSet(permsets) == Upsert(permsets, a.PermissionSetName, <<>>, AddType)
         IN Upsert(result, a.AccountName, <<>>, AddPermSet)

RECURSIVE build_account_assignments_map(_)
\* account name -> permission set name -> principal type -> principal names, each level
\* in insertion order: the map of the assignments before the last, then the last added
build_account_assignments_map(assignments) ==
    IF assignments = <<>> THEN <<>>
    ELSE LET a == assignments[Len(assignments)]
             result == build_account_assignments_map(SubSeq(assignments, 1, Len(assignments) - 1))
             Upsert(dict, key, Empty, Change(_)) ==
                 LET with_key == IF HasKey(dict, key) THEN dict ELSE Append(dict, [key |-> key, value |-> Empty])
                 IN [i \in DOMAIN with_key |->
                        IF with_key[i].key = key THEN [key |-> key, value |-> Change(with_key[i].value)]
                        ELSE with_key[i]]
             AddName(names) == Append(names, a.PrincipalName)
             AddType(types) == Upsert(types, a.PrincipalType, <<>>, AddName)
             AddPermSet(permsets) == Upsert(permsets, a.PermissionSetName, <<>>, AddType)
         IN IF IsSkippedAssignment(a) THEN result
            ELSE Upsert(result, a.AccountName, <<>>, AddPermSet)

-----------------------------------------------------------------------------
(* Phase 2: the output tree and the data-driven tasks *)

SSOADMIN_SUBFOLDERS == <<"account_assignments", "identity_store", "managed_policies", "permission_sets", "team">>

get_active_subfolders ==
    IF is_team_enabled THEN SSOADMIN_SUBFOLDERS ELSE SelectSeq(SSOADMIN_SUBFOLDERS, LAMBDA f : f # "team")

\* the output tree: the folders under the root, the .tf files by folder and name, the
\* JSON documents copied into a folder, and the copied module folders
NoTree == [dirs |-> {}, files |-> [k \in {} |-> 0], docs |-> [k \in {} |-> 0], modules |-> {}]

File(folder, name) == [dir |-> folder, name |-> name]

\* the text a template renders to with a data context
Render(template_name, data) == [template |-> template_name, data |-> data]

\* the characters str.rstrip() and str.lstrip() remove
Blank == {" ", "\t", "\n", "\r"}

RECURSIVE rstrip(_)
\* str.rstrip(): trailing whitespace removed
rstrip(text) ==
    IF text # <<>> /\ text[Len(text)] \in Blank THEN rstrip(SubSeq(text, 1, Len(text) - 1)) ELSE text

L_newline == <<"\n">>

\* how a rendered template ends: jinja2 drops the one newline that ends the template
\* file (keep_trailing_newline is not set)
TemplateEnding == <<>>

\* Path.write_text of a file of the output tree: text is the content up to its last
\* character that is not whitespace, eol the whitespace after it
WriteText(tree, folder, name, text, eol) ==
    [tree EXCEPT !.dirs = @ \cup ({folder} \ {""}),
                 !.files = Put(@, File(folder, name), [text |-> text, eol |-> eol, header |-> FALSE])]

\* render_template: the text is rendered.rstrip() + "\n"; output_folder "" is the root
render_template(tree, template_name, output_name, data, output_folder) ==
    WriteText(tree, output_folder, output_name, Render(template_name, data), L_newline)

Task(template_name, output_name, is_import, json_dir, required_fields, loader, filter, data_key, output_folder, allow_missing) ==
    [template_name |-> template_name, output_name |-> output_name, is_import |-> is_import,
     json_dir |-> json_dir, required_fields |-> required_fields, loader |-> loader, filter |-> filter,
     data_key |-> data_key, output_folder |-> output_folder, allow_missing |-> allow_missing]

\* is_import is "_import" in output_name
TERRAFORM_GENERATION_TASKS ==
    << Task("aws_identitystore_users.tf.jinja", "aws_identitystore_users.tf", FALSE, "users",
            {"SCIM", "ResourceName", "UserName"}, "load_json_files", "all", "users", "identity_store", FALSE),
       Task("aws_identitystore_users_scim.tf.jinja", "aws_identitystore_users_scim.tf", FALSE, "users",
            {"SCIM", "ResourceName", "UserName"}, "load_json_files", "scim", "users", "identity_store", FALSE),
       Task("aws_identitystore_users_map.tf.jinja", "aws_identitystore_users_map.tf", FALSE, "users",
            {"SCIM", "ResourceName", "UserName"}, "load_json_files", "all", "users", "identity_store", FALSE),
       Task("aws_identitystore_users_import.tf.jinja", "aws_identitystore_users_import.tf", TRUE, "users",
            {"SCIM", "ResourceName", "ImportId"}, "load_json_files", "not_scim", "users", "identity_store", FALSE),
       Task("aws_identitystore_groups.tf.jinja", "aws_identitystore_groups.tf", FALSE, "groups",
            {"SCIM", "ResourceName", "DisplayName"}, "load_json_files", "not_scim", "groups", "identity_store", FALSE),
       Task("aws_identitystore_groups_scim.tf.jinja", "aws_identitystore_groups_scim.tf", FALSE, "groups",
            {"SCIM", "ResourceName", "DisplayName"}, "load_json_files", "scim", "groups", "identity_store", FALSE),
       Task("aws_identitystore_groups_map.tf.jinja", "aws_identitystore_groups_map.tf", FALSE, "groups",
            {"SCIM", "ResourceName", "DisplayName"}, "load_json_files", "all", "groups", "identity_store", FALSE),
       Task("aws_identitystore_groups_import.tf.jinja", "aws_identitystore_groups_import.tf", TRUE, "groups",
            {"SCIM", "ResourceName", "ImportId"}, "load_json_files", "not_scim", "groups", "identity_store", FALSE),
       Task("aws_identitystore_group_memberships_map.tf.jinja", "aws_identitystore_group_memberships_map.tf", FALSE,
            "group_memberships", {}, "load_membership_files", "memberships_map", "memberships", "identity_store", FALSE),
       Task("aws_identitystore_group_memberships_map_scim.tf.jinja", "aws_identitystore_group_memberships_map_scim.tf", FALSE,
            "group_memberships", {}, "load_membership_files", "memberships_map_scim", "memberships", "identity_store", FALSE),
       Task("aws_identitystore_group_memberships_import.tf.jinja", "aws_identitystore_group_memberships_import.tf", TRUE,
            "group_memberships", {}, "load_membership_files", "memberships_import", "memberships", "identity_store", FALSE),
       Task("aws_iam_managed_policies_list.tf.jinja", "aws_iam_managed_policies_list.tf", FALSE, "managed_policies",
            {"PolicyName"}, "load_json_files", "all", "policies", "managed_policies", TRUE),
       Task("aws_iam_managed_policies_map.tf.jinja", "aws_iam_managed_policies_map.tf", FALSE, "managed_policies",
            {"PolicyName", "Arn"}, "load_json_files", "all", "policies", "managed_policies", TRUE),
       Task("aws_ssoadmin_permission_sets.tf.jinja", "aws_ssoadmin_permission_sets.tf", FALSE, "permission_sets",
            {"ResourceName", "SessionDuration"}, "load_json_files", "all", "permission_sets", "permission_sets", FALSE),
       Task("aws_ssoadmin_permission_sets_map.tf.jinja", "aws_ssoadmin_permission_sets_map.tf", FALSE, "permission_sets",
            {"ResourceName"}, "load_json_files", "all", "permission_sets", "permission_sets", FALSE),
       Task("aws_ssoadmin_permission_sets_import.tf.jinja", "aws_ssoadmin_permission_sets_import.tf", TRUE, "permission_sets",
            {"ResourceName", "ImportId", "ImportTo"}, "load_json_files", "all", "permission_sets", "permission_sets", FALSE),
       Task("aws_ssoadmin_permission_set_inline_policies_import.tf.jinja",
            "aws_ssoadmin_permission_set_inline_policies_import.tf", TRUE, "permission_sets",
            {"ResourceName", "ImportId", "HasInlinePolicy"}, "load_json_files", "has_inline_policy",
            "permission_sets", "permission_sets", FALSE),
       Task("aws_ssoadmin_managed_policy_attachments_map.tf.jinja", "aws_ssoadmin_managed_policy_attachments_map.tf", FALSE,
            "permission_sets", {}, "load_managed_policy_attachments", "all", "attachments", "permission_sets", FALSE),
       Task("aws_ssoadmin_managed_policy_attachments_import.tf.jinja", "aws_ssoadmin_managed_policy_attachments_import.tf", TRUE,
            "permission_sets", {"ResourceName", "ImportId", "ManagedPolicies"}, "load_managed_policy_attachments", "all",
            "attachments", "permission_sets", FALSE),
       Task("aws_ssoadmin_account_assignments_import.tf.jinja", "aws_ssoadmin_account_assignments_import.tf", TRUE,
            "account_assignments", {"ResourceName", "ImportId", "ImportTo"}, "load_account_assignments", "assignments_kept",
            "assignments", "account_assignments", FALSE),
       Task("aws_ssoadmin_account_assignments_map.tf.jinja", "aws_ssoadmin_account_assignments_map.tf", FALSE,
            "account_assignments", {"AccountName", "PermissionSetName", "PrincipalType", "PrincipalName"},
            "load_account_assignments", "build_account_assignments_map", "account_assignments_map",
            "account_assignments", FALSE),
       Task("locals.tf.jinja", "locals.tf", FALSE, "accounts", {"ResourceName", "Id"}, "load_json_files", "all",
            "accounts", "account_assignments", FALSE),
       Task("aws_team_approver_policies.tf.jinja", "aws_team_approver_policies.tf", FALSE, "team/dynamodb_items/approvers",
            {}, "load_json_files", "all", "approver_policies", "team", FALSE),
       Task("aws_team_eligibility_policies.tf.jinja", "aws_team_eligibility_policies.tf", FALSE,
            "team/dynamodb_items/eligibility", {}, "load_json_files", "all", "eligibility_policies", "team", FALSE) >>

\* the "filter" lambdas of the tasks
ApplyFilter(filter, raw) ==
    CASE filter = "all" -> raw
      [] filter = "scim" -> SelectSeq(raw, LAMBDA x : x.SCIM)
      [] filter = "not_scim" -> SelectSeq(raw, LAMBDA x : ~x.SCIM)
      [] filter = "has_inline_policy" -> SelectSeq(raw, LAMBDA p : p.HasInlinePolicy)
      [] filter = "memberships_map" ->
            SelectSeq([i \in DOMAIN raw |-> [key |-> raw[i].key, value |-> SelectSeq(raw[i].value, LAMBDA m : ~m.SCIM)]],
                      LAMBDA g : \E j \in DOMAIN ValueAt(raw, g.key) : ~ValueAt(raw, g.key)[j].SCIM)
      [] filter = "memberships_map_scim" ->
            SelectSeq([i \in DOMAIN raw |-> [key |-> raw[i].key, value |-> SelectSeq(raw[i].value, LAMBDA m : m.SCIM)]],
                      LAMBDA g : \E j \in DOMAIN ValueAt(raw, g.key) : ValueAt(raw, g.key)[j].SCIM)
      [] filter = "memberships_import" ->
            [i \in DOMAIN raw |-> [key |-> raw[i].key, value |-> SelectSeq(raw[i].value, LAMBDA m : ~m.SCIM)]]
      [] filter = "assignments_kept" -> SelectSeq(raw, LAMBDA p : ~IsSkippedAssignment(p))
      [] filter = "build_account_assignments_map" -> build_account_assignments_map(raw)

\* the characters of a component folder's name
Chars(folder) ==
    CASE folder = "account_assignments" -> <<"a","c","c","o","u","n","t","_","a","s","s","i","g","n","m","e","n","t","s">>
      [] folder = "identity_store" -> <<"i","d","e","n","t","i","t","y","_","s","t","o","r","e">>
      [] folder = "managed_policies" -> <<"m","a","n","a","g","e","d","_","p","o","l","i","c","i","e","s">>
      [] folder = "permission_sets" -> <<"p","e","r","m","i","s","s","i","o","n","_","s","e","t","s">>
      [] folder = "team" -> <<"t","e","a","m">>
      [] OTHER -> <<>>

\* str.replace of one character by another
Replace(s, old, new) == [i \in DOMAIN s |-> IF s[i] = old THEN new ELSE s[i]]

L_module == <<"m","o","d","u","l","e",".">>

\* a dict of the loaders, as against a list of records
IsDict(data) == data # <<>> /\ \A i \in DOMAIN data : DOMAIN data[i] = {"key", "value"}

\* the data handed on as loaded, with no module reference
add_no_module_prefix(data, module_name, data_key) == data

\* the module reference put in front of every ImportTo of a list or of the lists of a dict
add_module_prefix_to_imports(data, module_name, data_key) ==
    LET module_ref == Replace(module_name, "-", "_")
        Prefixed(item) ==
            IF "ImportTo" \in DOMAIN item
            THEN [item EXCEPT !.ImportTo = L_module \o module_ref \o <<".">> \o @]
            ELSE item
    IN IF IsDict(data)
       THEN [i \in DOMAIN data |->
                [key |-> data[i].key, value |-> [j \in DOMAIN data[i].value |-> Prefixed(data[i].value[j])]]]
       ELSE [i \in DOMAIN data |-> Prefixed(data[i])]

\* the run of a loader that raised stops; tree holds what was written before
Outcome(tree, failed) == [tree |-> tree, failed |-> failed]

\* one turn of the task loop of generate_terraform_files
RunTask(tree, task) ==
    LET template_name ==
            IF task.template_name = "aws_iam_managed_policies_map.tf.jinja" /\ ~use_managed_policy_data_sources
            THEN "aws_iam_managed_policies_map_static.tf.jinja" ELSE task.template_name
        at_root == is_single_state /\ task.is_import
        output_folder == IF at_root THEN "" ELSE task.output_folder
        module_name == IF at_root THEN Replace(Chars(task.output_folder), "_", "-") ELSE <<>>
        module_prefix == IF at_root THEN L_module \o Replace(module_name, "-", "_") \o <<".">> ELSE <<>>
        raw_data ==
            CASE task.loader = "load_membership_files" -> load_membership_files(task.json_dir)
              [] task.loader = "load_json_files" ->
                    load_json_files(task.json_dir, task.required_fields, task.allow_missing)
              [] task.loader = "load_managed_policy_attachments" ->
                    load_managed_policy_attachments(task.json_dir, task.required_fields)
              [] task.loader = "load_account_assignments" ->
                    load_account_assignments(task.json_dir, task.required_fields)
        filtered_data == ApplyFilter(task.filter, raw_data.value)
        handed == IF at_root /\ module_name # <<>>
                  THEN add_module_prefix_to_imports(filtered_data, module_name, task.data_key)
                  ELSE filtered_data
        template_data == (task.data_key :> handed) @@ ("module_prefix" :> module_prefix)
    IN IF task.output_folder = "team" /\ ~is_team_enabled THEN Outcome(tree, FALSE)
       ELSE IF task.template_name = "aws_iam_managed_policies_list.tf.jinja" /\ ~use_managed_policy_data_sources
       THEN Outcome(tree, FALSE)
       ELSE IF raw_data.failed THEN Outcome(tree, TRUE)
       ELSE Outcome(render_template(tree, template_name, task.output_name, template_data, output_folder), FALSE)

RECURSIVE RunTasks(_, _)
\* the task loop: the tasks are run in their order and the first one that fails ends
\* the loop; the list is walked as its first half followed by its second half
RunTasks(tree, tasks) ==
    IF tasks = <<>> THEN Outcome(tree, FALSE)
    ELSE IF Len(tasks) = 1 THEN RunTask(tree, Head(tasks))
    ELSE CHOOSE outcome \in {IF done.failed THEN done
                             ELSE RunTasks(done.tree, SubSeq(tasks, Len(tasks) \div 2 + 1, Len(tasks))) :
                                done \in {RunTasks(tree, SubSeq(tasks, 1, Len(tasks) \div 2))}} : TRUE

\* the paths and folders in which two trees differ
Changed(old, new) ==
    {p \in DOMAIN new.files : p \notin DOMAIN old.files \/ new.files[p] # old.files[p]}
    \cup {[dir |-> d, name |-> "*"] : d \in {d \in DOMAIN new.docs : d \notin DOMAIN old.docs \/ new.docs[d] # old.docs[d]}}
    \cup {[dir |-> d, name |-> "*"] : d \in new.modules \ old.modules}
    \cup {[dir |-> d, name |-> ""] : d \in new.dirs \ old.dirs}

generate_terraform_files ==
    /\ pc = "g_files"
    /\ LET done == RunTasks(tf, TERRAFORM_GENERATION_TASKS)
       IN /\ tf' = done.tree
          /\ pc' = IF done.failed THEN "failed" ELSE "g_team"
    /\ wrote' = [wrote EXCEPT !.tf = @ \cup Changed(tf, tf')]
    /\ UNCHANGED <<sanIn, sanOnce, sanTwice, returned, cfg, src, env, json, mem, prev>>

-----------------------------------------------------------------------------
(* Phase 2: the steps of generate_terraform *)

\* the latest stable versions the provider registry can report
Registry == {[aws |-> "5.85.0", tfe |-> "0.63.0"], [aws |-> "6.0.0", tfe |-> "0.64.0"]}

Envs == [listing : {"asc", "desc"}, registry : Registry]

NoPrev == [ran |-> FALSE, tree |-> NoTree, registry |-> [aws |-> "", tfe |-> ""]]

\* the text of a generated map of managed policies, read back: the name and ARN of
\* each policy it was rendered from
ParsePolicies(content) ==
    LET policies == content.text.data["policies"]
    IN [i \in DOMAIN policies |-> [PolicyName |-> policies[i].PolicyName, Arn |-> policies[i].Arn]]

\* the record store left as it is
preserve_nothing(store) == store

\* the record store with the managed policies of the existing output put back into it
preserve_managed_policies_from_terraform(store) ==
    LET list_file == File("managed_policies", "aws_iam_managed_policies_list.tf")
        map_file == File("managed_policies", "aws_iam_managed_policies_map.tf")
        source_file == IF list_file \in DOMAIN tf.files THEN list_file ELSE map_file
        policies == ParsePolicies(tf.files[source_file])
        made == MkDirs(store, {"managed_policies"})
        names == {policies[i].PolicyName : i \in DOMAIN policies}
        plain == [made EXCEPT !["managed_policies"] =
                     [n \in DOMAIN @ \cup names |->
                         IF n \in names
                         THEN policies[CHOOSE i \in DOMAIN policies :
                                          /\ policies[i].PolicyName = n
                                          /\ \A j \in DOMAIN policies : j > i => policies[j].PolicyName # n]
                         ELSE @[n]]]
        copied == [k \in DOMAIN plain \cup {"managed_policies/policies"} |->
                      IF k = "managed_policies/policies" THEN tf.docs["managed_policies/policies"] ELSE plain[k]]
    IN IF source_file \notin DOMAIN tf.files THEN store
       ELSE IF policies = <<>> THEN store
       ELSE IF "managed_policies/policies" \in DOMAIN tf.docs THEN copied
       ELSE plain

\* generate_terraform up to the cleaning: the settings are resolved, the surroundings
\* of this run are what they are, and retained managed policies are put back
generate_terraform_begin ==
    /\ pc = "g_start"
    /\ \E e \in Envs :
          /\ (~cfg.auto_update_providers => e.registry = env.registry)
          /\ env' = e
    /\ json' = IF cfg.retain_managed_policies THEN preserve_managed_policies_from_terraform(json) ELSE json
    /\ wrote' = IF cfg.command = "generate" THEN NoWrites
                ELSE [wrote EXCEPT !.json = @ \cup {n \in DOMAIN json' : n \notin DOMAIN json \/ json'[n] # json[n]}]
    /\ pc' = "g_clean"
    /\ UNCHANGED <<sanIn, sanOnce, sanTwice, returned, cfg, src, mem, tf, prev>>

\* the folders below a component folder
Nested(top) ==
    CASE top = "permission_sets" -> {"permission_sets/inline_policies"}
      [] top = "managed_policies" -> {"managed_policies/policies"}
      [] top = "team" -> {"team/modules", "team/modules/approver", "team/modules/eligibility", "team/team_app_assignment"}
      [] OTHER -> {}

Restrict(f, keep) == [k \in keep |-> f[k]]

\* Path.unlink of the files gone
Unlink(tree, gone) == [tree EXCEPT !.files = Restrict(@, DOMAIN @ \ gone)]

\* shutil.rmtree of a component folder
RmTree(tree, top) ==
    LET under == {top} \cup Nested(top)
    IN [dirs |-> tree.dirs \ under,
        files |-> Restrict(tree.files, {p \in DOMAIN tree.files : p.dir \notin under}),
        docs |-> Restrict(tree.docs, DOMAIN tree.docs \ under),
        modules |-> tree.modules \ under]

RECURSIVE ClearFolders(_, _)
\* each active component folder removed and made again, empty
ClearFolders(tree, subfolders) ==
    IF subfolders = <<>> THEN tree
    ELSE LET cleared == RmTree(tree, Head(subfolders))
         IN ClearFolders([cleared EXCEPT !.dirs = @ \cup {Head(subfolders)}], Tail(subfolders))

clean_terraform_directories ==
    /\ pc = "g_clean"
    /\ LET stale == IF is_single_state
                    THEN {File(f, n) : f \in Range(SSOADMIN_SUBFOLDERS), n \in {"external.tf", "providers.tf"}}
                    ELSE {File("", "main.tf"), File("", "providers.tf")} \cup
                         {File(f, "variables.tf") : f \in Range(SSOADMIN_SUBFOLDERS)}
           unlinked == Unlink(tf, stale)
           without_team == IF "team" \notin Range(get_active_subfolders) THEN RmTree(unlinked, "team") ELSE unlinked
       IN tf' = ClearFolders(without_team, get_active_subfolders)
    /\ wrote' = [wrote EXCEPT !.tf = @ \cup Changed(tf, tf')]
    /\ pc' = "g_instances"
    /\ UNCHANGED <<sanIn, sanOnce, sanTwice, returned, cfg, src, env, json, mem, prev>>

RECURSIVE WriteInto(_, _, _, _, _)
\* the same text written under one name into each of the folders
WriteInto(tree, folders, name, text, eol) ==
    IF folders = <<>> THEN tree
    ELSE WriteInto(WriteText(tree, Head(folders), name, text, eol), Tail(folders), name, text, eol)

generate_ssoadmin_instances_files ==
    /\ pc = "g_instances"
    /\ tf' = WriteInto(tf, get_active_subfolders, "aws_ssoadmin_instances.tf",
                       Render("aws_ssoadmin_instances.tf.jinja", <<>>), TemplateEnding)
    /\ wrote' = [wrote EXCEPT !.tf = @ \cup Changed(tf, tf')]
    /\ pc' = "g_providers"
    /\ UNCHANGED <<sanIn, sanOnce, sanTwice, returned, cfg, src, env, json, mem, prev>>

\* the Region of the first file the sso_admin directory lists
read_sso_admin_region ==
    IF "sso_admin" \notin DOMAIN json THEN Raised
    ELSE IF DOMAIN json["sso_admin"] = {} THEN Raised
    ELSE LET data == json["sso_admin"][Glob(json["sso_admin"])[1]]
         IN IF Get(data, "Region", <<>>) = <<>> THEN Raised ELSE Loaded(data.Region)

\* the provider version a run writes: the registry's latest, or the pinned one
aws_provider_version == IF cfg.auto_update_providers THEN env.registry.aws ELSE "5.85.0"
tfe_provider_version == IF cfg.auto_update_providers THEN env.registry.tfe ELSE "0.63.0"

generate_providers_tf ==
    /\ pc = "g_providers"
    /\ LET region == read_sso_admin_region
           rendered ==
               IF is_local
               THEN Render("providers_local.tf.jinja",
                           [aws_provider_version |-> aws_provider_version, region |-> region.value])
               ELSE Render("providers.tf.jinja",
                           [aws_provider_version |-> aws_provider_version,
                            tfe_provider_version |-> IF is_tfc THEN tfe_provider_version ELSE "",
                            region |-> region.value])
       IN IF is_single_state THEN tf' = tf /\ pc' = "g_templates"
          ELSE IF region.failed THEN tf' = tf /\ pc' = "failed"
          ELSE tf' = WriteInto(tf, get_active_subfolders, "providers.tf", rendered, L_newline) /\ pc' = "g_templates"
    /\ wrote' = [wrote EXCEPT !.tf = @ \cup Changed(tf, tf')]
    /\ UNCHANGED <<sanIn, sanOnce, sanTwice, returned, cfg, src, env, json, mem, prev>>

\* a template file of the tool: its base name and its variant suffix
Template(base, variant) == [base |-> base, variant |-> variant]
TemplateName(t) == t.base \o t.variant \o ".tf.jinja"

\* the *.tf.jinja files of the templates folder of a component
TemplateFiles(subfolder) ==
    CASE subfolder = "identity_store" ->
            {Template(b, "") : b \in {"aws_identitystore_users", "aws_identitystore_users_scim",
                                      "aws_identitystore_users_map", "aws_identitystore_users_import",
                                      "aws_identitystore_groups", "aws_identitystore_groups_scim",
                                      "aws_identitystore_groups_map", "aws_identitystore_groups_import",
                                      "aws_identitystore_group_memberships_map",
                                      "aws_identitystore_group_memberships_map_scim",
                                      "aws_identitystore_group_memberships_import", "outputs"}}
      [] subfolder = "managed_policies" ->
            {Template(b, "") : b \in {"aws_iam_managed_policies", "aws_iam_managed_policies_list",
                                      "aws_iam_managed_policies_map", "aws_iam_managed_policies_map_static",
                                      "outputs"}}
      [] subfolder = "permission_sets" ->
            {Template(b, "") : b \in {"aws_ssoadmin_permission_sets", "aws_ssoadmin_permission_sets_map",
                                      "aws_ssoadmin_permission_sets_import",
                                      "aws_ssoadmin_permission_set_inline_policies_import",
                                      "aws_ssoadmin_managed_policy_attachments_map",
                                      "aws_ssoadmin_managed_policy_attachments_import",
                                      "aws_ssoadmin_managed_policy_attachments", "external", "variables", "outputs"}}
            \cup {Template("aws_ssoadmin_managed_policy_attachments", v) : v \in {"_local", "_remote_state"}}
            \cup {Template("external", "_remote_state")}
      [] subfolder = "account_assignments" ->
            {Template(b, "") : b \in {"aws_ssoadmin_account_assignments_import", "aws_ssoadmin_account_assignments_map",
                                      "aws_ssoadmin_account_assignments", "external", "variables", "locals"}}
            \cup {Template("aws_ssoadmin_account_assignments", v) : v \in {"_local", "_remote_state"}}
            \cup {Template("external", "_remote_state")}
      [] subfolder = "team" ->
            {Template(b, "") : b \in {"data", "locals", "main", "aws_team_approver_policies",
                                      "aws_team_eligibility_policies", "aws_team_application_assignments",
                                      "aws_team_application_assignments_import", "external", "variables"}}
            \cup {Template("external", "_remote_state")}

\* the templates the data-driven tasks render
skip_templates ==
    {"aws_identitystore_users.tf.jinja", "aws_identitystore_users_scim.tf.jinja",
     "aws_identitystore_users_map.tf.jinja", "aws_identitystore_users_import.tf.jinja",
     "aws_identitystore_groups.tf.jinja", "aws_identitystore_groups_scim.tf.jinja",
     "aws_identitystore_groups_map.tf.jinja", "aws_identitystore_groups_import.tf.jinja",
     "aws_identitystore_group_memberships_map.tf.jinja", "aws_identitystore_group_memberships_map_scim.tf.jinja",
     "aws_identitystore_group_memberships_import.tf.jinja", "aws_iam_managed_policies_list.tf.jinja",
     "aws_iam_managed_policies_map.tf.jinja", "aws_iam_managed_policies_map_static.tf.jinja",
     "aws_ssoadmin_permission_sets.tf.jinja", "aws_ssoadmin_permission_sets_map.tf.jinja",
     "aws_ssoadmin_permission_sets_import.tf.jinja", "aws_ssoadmin_permission_set_inline_policies_import.tf.jinja",
     "aws_ssoadmin_managed_policy_attachments_map.tf.jinja", "aws_ssoadmin_managed_policy_attachments_import.tf.jinja",
     "aws_ssoadmin_account_assignments_import.tf.jinja", "aws_ssoadmin_account_assignments_map.tf.jinja",
     "data.tf.jinja", "main.tf.jinja"}
    \cup (IF ~use_managed_policy_data_sources THEN {"aws_iam_managed_policies.tf.jinja"} ELSE {})

skip_in_single_state ==
    {"external.tf.jinja", "external_remote_state.tf.jinja", "aws_ssoadmin_account_assignments.tf.jinja",
     "aws_ssoadmin_managed_policy_attachments.tf.jinja", "aws_ssoadmin_account_assignments_remote_state.tf.jinja",
     "aws_ssoadmin_managed_policy_attachments_remote_state.tf.jinja"}
\* no template left out in multi-state mode
skip_nothing == {}

skip_in_multi_state ==
    {"variables.tf.jinja", "aws_ssoadmin_account_assignments_local.tf.jinja",
     "aws_ssoadmin_managed_policy_attachments_local.tf.jinja"}
skip_in_multi_state_tfc ==
    {"external_remote_state.tf.jinja", "aws_ssoadmin_account_assignments_remote_state.tf.jinja",
     "aws_ssoadmin_managed_policy_attachments_remote_state.tf.jinja"}
skip_in_multi_state_local ==
    {"external.tf.jinja", "aws_ssoadmin_account_assignments.tf.jinja",
     "aws_ssoadmin_managed_policy_attachments.tf.jinja"}

\* the test of the loop of copy_templates: the template is rendered
IsCopied(t, source) ==
    LET name == TemplateName(t)
    IN /\ name \notin skip_templates
       /\ ~(is_single_state /\ name \in skip_in_single_state)
       /\ ~(is_multi_state /\ name \in skip_in_multi_state)
       /\ ~(is_multi_state /\ is_tfc /\ name \in skip_in_multi_state_tfc)
       /\ ~(is_multi_state /\ is_local /\ name \in skip_in_multi_state_local)
       \* in single-state a template gives way to its _local variant
       /\ ~(is_single_state /\ Template(t.base \o t.variant, "_local") \in source)

\* the name a template would be written under with its variant suffix left on
new_name_with_suffix(t) == t.base \o t.variant \o ".tf"

\* the name a template is written under: the variant suffix of the mode is dropped
new_name(t) ==
    IF is_single_state THEN (IF t.variant = "_local" THEN t.base ELSE t.base \o t.variant) \o ".tf"
    ELSE IF is_multi_state /\ is_local
    THEN (IF t.variant = "_remote_state" THEN t.base ELSE t.base \o t.variant) \o ".tf"
    ELSE t.base \o t.variant \o ".tf"

template_context ==
    [tfe_organization |-> cfg.tfc_org,
     workspace_identity_store |-> IF is_multi_state THEN get_workspace_name("identity-store") ELSE "",
     workspace_permission_sets |-> IF is_multi_state THEN get_workspace_name("permission-sets") ELSE "",
     workspace_account_assignments |-> IF is_multi_state THEN get_workspace_name("account-assignments") ELSE "",
     workspace_managed_policies |-> IF is_multi_state THEN get_workspace_name("managed-policies") ELSE "",
     state_mode |-> cfg.state_mode, platform |-> cfg.platform]

\* the whole-directory templates of one component rendered into its folder; two
\* templates never take the same name in the listings above
copy_templates(tree, subfolder) ==
    LET source == TemplateFiles(subfolder)
        copied == {t \in source : IsCopied(t, source)}
        Text(name) == Render(TemplateName(CHOOSE t \in copied : new_name(t) = name), template_context)
        names == {new_name(t) : t \in copied}
    IN [tree EXCEPT !.dirs = @ \cup {subfolder},
                    !.files = [p \in DOMAIN @ \cup {File(subfolder, n) : n \in names} |->
                                  IF p.dir = subfolder /\ p.name \in names
                                  THEN [text |-> Text(p.name), eol |-> TemplateEnding, header |-> FALSE]
                                  ELSE @[p]]]

RECURSIVE CopyAll(_, _)
CopyAll(tree, subfolders) ==
    IF subfolders = <<>> THEN tree ELSE CopyAll(copy_templates(tree, Head(subfolders)), Tail(subfolders))

generate_subfolder_templates ==
    /\ pc = "g_templates"
    /\ tf' = CopyAll(tf, get_active_subfolders)
    /\ wrote' = [wrote EXCEPT !.tf = @ \cup Changed(tf, tf')]
    /\ pc' = "g_files"
    /\ UNCHANGED <<sanIn, sanOnce, sanTwice, returned, cfg, src, env, json, mem, prev>>

L_team_application == <<"t","e","a","m","_","a","p","p","l","i","c","a","t","i","o","n">>
L_team_application_assignments == L_team_application \o <<"_","a","s","s","i","g","n","m","e","n","t","s">>

\* the ApplicationArn of json/team/team_application.json, empty when there is none
get_team_application_arn ==
    IF "team" \in DOMAIN json /\ L_team_application \in DOMAIN json["team"]
    THEN Get(json["team"][L_team_application], "ApplicationArn", <<>>)
    ELSE <<>>

load_team_application_assignments ==
    IF "team" \in DOMAIN json /\ L_team_application_assignments \in DOMAIN json["team"]
    THEN json["team"][L_team_application_assignments]
    ELSE [users |-> <<>>, groups |-> <<>>, assignments |-> <<>>]

render_team_locals_tf(tree) ==
    LET accounts == load_json_files("accounts", {"ResourceName", "Id"}, FALSE)
        loaded == IF "organizational_units" \in DOMAIN json
                  THEN load_json_files("organizational_units", {"OriginalName", "Id"}, FALSE)
                  ELSE Loaded(<<>>)
        ous == SortedBy(loaded.value, LAMBDA x : Get(x, "FullPath", x.OriginalName))
    IN IF accounts.failed \/ loaded.failed THEN Outcome(tree, TRUE)
       ELSE Outcome(render_template(tree, "locals.tf.jinja", "locals.tf",
                                    [accounts |-> accounts.value, organizational_units |-> ous], "team"),
                    FALSE)

render_team_data_tf(tree) ==
    LET team_app_arn == get_team_application_arn
        dynamodb_tables == load_json_files("team/dynamodb_tables", {"Table"}, FALSE)
    IN IF team_app_arn = <<>> THEN Outcome(tree, FALSE)
       ELSE IF dynamodb_tables.failed THEN Outcome(tree, TRUE)
       ELSE Outcome(render_template(tree, "data.tf.jinja", "data.tf",
                                    [dynamodb_tables |-> dynamodb_tables.value, team_application_arn |-> team_app_arn],
                                    "team"),
                    FALSE)

render_team_application_assignments(tree) ==
    LET team_app_arn == get_team_application_arn
        assignment_data == load_team_application_assignments
        users == Get(assignment_data, "users", <<>>)
        groups == Get(assignment_data, "groups", <<>>)
        assignments == Get(assignment_data, "assignments", <<>>)
        listed == render_template(tree, "aws_team_application_assignments.tf.jinja",
                                  "aws_team_application_assignments.tf",
                                  [team_users |-> users, team_groups |-> groups, team_application_arn |-> team_app_arn],
                                  "team")
    IN IF team_app_arn = <<>> THEN tree
       ELSE IF users = <<>> /\ groups = <<>> THEN tree
       ELSE IF is_single_state
       THEN render_template(listed, "aws_team_application_assignments_import_single.tf.jinja",
                            "aws_team_application_assignments_import.tf", [assignments |-> assignments], "")
       ELSE render_template(listed, "aws_team_application_assignments_import.tf.jinja",
                            "aws_team_application_assignments_import.tf", [assignments |-> assignments], "team")

\* the three team renderings of generate_terraform
RenderTeam(tree) ==
    LET locals == render_team_locals_tf(tree)
        data == render_team_data_tf(locals.tree)
    IN IF locals.failed THEN locals
       ELSE IF data.failed THEN data
       ELSE Outcome(render_team_application_assignments(data.tree), FALSE)

render_team_files(tree) ==
    IF is_team_enabled THEN RenderTeam(tree) ELSE Outcome(tree, FALSE)

generate_terraform_team ==
    /\ pc = "g_team"
    /\ LET done == render_team_files(tf)
       IN /\ tf' = done.tree
          /\ pc' = IF done.failed THEN "failed" ELSE "g_copy"
    /\ wrote' = [wrote EXCEPT !.tf = @ \cup Changed(tf, tf')]
    /\ UNCHANGED <<sanIn, sanOnce, sanTwice, returned, cfg, src, env, json, mem, prev>>

\* the *.json files of a record store folder copied into the same folder of the output
CopyDocs(tree, folder) ==
    IF folder \notin DOMAIN json THEN tree
    ELSE LET before == IF folder \in DOMAIN tree.docs THEN tree.docs[folder] ELSE EmptyDir
             after == [n \in DOMAIN before \cup DOMAIN json[folder] |->
                          IF n \in DOMAIN json[folder] THEN json[folder][n] ELSE before[n]]
         IN [tree EXCEPT !.dirs = @ \cup WithParents(folder),
                         !.docs = [d \in DOMAIN @ \cup {folder} |-> IF d = folder THEN after ELSE @[d]]]

\* the module folders the tool ships for the team component
TeamModules == {"team/modules/approver", "team/modules/eligibility", "team/team_app_assignment"}

copy_additional_folders ==
    /\ pc = "g_copy"
    /\ LET copied == CopyDocs(CopyDocs(tf, "permission_sets/inline_policies"), "managed_policies/policies")
       IN tf' = IF is_team_enabled
                THEN [copied EXCEPT !.dirs = @ \cup {"team", "team/modules"} \cup TeamModules,
                                    !.modules = @ \cup TeamModules]
                ELSE copied
    /\ wrote' = [wrote EXCEPT !.tf = @ \cup Changed(tf, tf')]
    /\ pc' = "g_root"
    /\ UNCHANGED <<sanIn, sanOnce, sanTwice, returned, cfg, src, env, json, mem, prev>>

generate_local_root_module ==
    /\ pc = "g_root"
    /\ LET region == read_sso_admin_region
           with_main == WriteText(tf, "", "main.tf", Render("local/main.tf.jinja", [enable_team |-> is_team_enabled]), L_newline)
           providers ==
               IF is_tfc
               THEN Render("local/providers_tfc.tf.jinja",
                           [aws_provider_version |-> aws_provider_version, region |-> region.value,
                            tfe_organization |-> cfg.tfc_org, workspace_name |-> get_workspace_name("")])
               ELSE Render("local/providers.tf.jinja",
                           [aws_provider_version |-> aws_provider_version, region |-> region.value])
       IN IF ~is_single_state THEN tf' = tf /\ pc' = "g_newline"
          ELSE IF region.failed THEN tf' = tf /\ pc' = "failed"
          ELSE tf' = WriteText(with_main, "", "providers.tf", providers, L_newline) /\ pc' = "g_newline"
    /\ wrote' = [wrote EXCEPT !.tf = @ \cup Changed(tf, tf')]
    /\ UNCHANGED <<sanIn, sanOnce, sanTwice, returned, cfg, src, env, json, mem, prev>>

\* the index of the last "." of a file name, 0 without one
LastDot(name) ==
    LET dots == {i \in 1..Len(name) : SubSeq(name, i, i) = "."}
    IN IF dots = {} THEN 0 ELSE CHOOSE i \in dots : \A j \in dots : j <= i

\* Path.suffix: the name from its last dot on, "" when the name has no dot or the
\* dot is its first or its last character
suffix(name) ==
    IF LastDot(name) > 1 /\ LastDot(name) < Len(name) THEN SubSeq(name, LastDot(name), Len(name)) ELSE ""

\* file_path.suffix in [".tf", ".tf.json"]
has_tf_suffix(name) == suffix(name) \in {".tf", ".tf.json"}

\* each file of the tree with such a suffix rewritten as content.rstrip() + "\n"
ensure_single_newline_at_end ==
    /\ pc = "g_newline"
    /\ tf' = [tf EXCEPT !.files = [p \in DOMAIN @ |->
                   IF has_tf_suffix(p.name) THEN [@[p] EXCEPT !.eol = rstrip(@) \o L_newline] ELSE @[p]]]
    /\ pc' = "g_headers"
    /\ UNCHANGED <<sanIn, sanOnce, sanTwice, returned, cfg, src, env, json, mem, wrote, prev>>

\* each file of the tree with such a suffix that does not start with the header gets
\* header_comment + "\n" + content.lstrip(): its end stays as it is
add_headers_to_tf_files ==
    /\ pc = "g_headers"
    /\ tf' = [tf EXCEPT !.files = [p \in DOMAIN @ |->
                   IF has_tf_suffix(p.name) THEN [@[p] EXCEPT !.header = TRUE] ELSE @[p]]]
    /\ pc' = "done"
    /\ UNCHANGED <<sanIn, sanOnce, sanTwice, returned, cfg, src, env, json, mem, wrote, prev>>

\* the generate command run once the full command is done: generate_terraform
\* again, over the record store and the output tree as they are
generate ==
    /\ pc = "done"
    /\ cfg.command = "full"
    /\ ~prev.ran
    /\ prev' = [ran |-> TRUE, tree |-> tf, registry |-> env.registry]
    /\ cfg' = [cfg EXCEPT !.command = "generate"]
    /\ pc' = "g_start"
    /\ UNCHANGED <<sanIn, sanOnce, sanTwice, returned, src, env, json, mem, tf, wrote>>

-----------------------------------------------------------------------------
(* The runs *)

\* the settings under which every snapshot is fetched and generated from
BaseConfigs ==
    {c \in Configs : /\ c.command = "fetch"
                     /\ ~c.retain_managed_policies /\ ~c.auto_update_providers
                     /\ c.state_mode = "single" /\ c.platform = "local"}

Init ==
    /\ sanIn = <<>> /\ sanOnce = NotYet /\ sanTwice = NotYet /\ returned = NotYet
    /\ \/ cfg \in {c \in Configs : c.command = "full"} /\ src = DefaultSnapshot
       \/ cfg \in BaseConfigs /\ src \in Snapshots
    /\ env \in {e \in Envs : e.registry.aws = "5.85.0" /\ e.listing = "asc"}
    /\ pc = "f_start"
    /\ json = NoStore
    /\ mem = NoMem
    /\ tf = NoTree
    /\ wrote = NoWrites
    /\ prev = NoPrev

Next ==
    \/ fetch_data_begin
    \/ fetch_sso_admin_instance
    \/ fetch_users
    \/ fetch_groups
    \/ fetch_group_memberships
    \/ fetch_accounts
    \/ fetch_organizational_units
    \/ fetch_permission_sets
    \/ fetch_inline_policies
    \/ fetch_managed_policy_attachments
    \/ fetch_customer_managed_policy_attachments
    \/ fetch_permission_set_tags
    \/ fetch_account_assignments
    \/ fetch_data_team
    \/ fetch_managed_policies
    \/ generate_terraform_begin
    \/ clean_terraform_directories
    \/ generate_ssoadmin_instances_files
    \/ generate_providers_tf
    \/ generate_subfolder_templates
    \/ generate_terraform_files
    \/ generate_terraform_team
    \/ copy_additional_folders
    \/ generate_local_root_module
    \/ ensure_single_newline_at_end
    \/ add_headers_to_tf_files
    \/ generate

Spec == Init /\ [][Next]_vars

-----------------------------------------------------------------------------
(* Runs that follow an earlier run: other settings, a changed source *)

\* the settings file is edited after a full run and the generate command is run over
\* the record store and the output tree as they are, in another mode
switch_settings ==
    /\ pc = "done"
    /\ cfg.command = "full"
    /\ ~prev.ran
    /\ \E state_mode \in {"single", "multi"}, platform \in {"local", "tfc"}, enable_team \in BOOLEAN :
          /\ <<state_mode, platform, enable_team>> # <<cfg.state_mode, cfg.platform, cfg.enable_team>>
          /\ cfg' = [cfg EXCEPT !.command = "generate", !.state_mode = state_mode,
                                !.platform = platform, !.enable_team = enable_team]
    /\ prev' = [ran |-> TRUE, tree |-> tf, registry |-> env.registry]
    /\ pc' = "g_start"
    /\ UNCHANGED <<sanIn, sanOnce, sanTwice, returned, src, env, json, mem, tf, wrote>>

\* the source without user u2, its memberships and its assignments
WithoutUser(source, user_id) ==
    [source EXCEPT !.users = SelectSeq(@, LAMBDA u : u.UserId # user_id),
                   !.memberships = SelectSeq(@, LAMBDA m : m.MemberId.UserId # user_id),
                   !.assignments = SelectSeq(@, LAMBDA a : a.PrincipalId # user_id)]

\* a user is deleted from the directory after a fetch run and the fetch command is
\* run again over the record store as it is
fetch_again ==
    /\ pc = "done"
    /\ cfg.command = "fetch"
    /\ ~prev.ran
    /\ src.instances # <<>>
    /\ src' = WithoutUser(src, U2)
    /\ prev' = [prev EXCEPT !.ran = TRUE]
    /\ pc' = "f_start"
    /\ UNCHANGED <<sanIn, sanOnce, sanTwice, returned, cfg, env, json, mem, tf, wrote>>

\* the record store is gone after a full run (a fresh checkout that holds the output
\* tree only) and the full command is run with retain_managed_policies
run_retaining ==
    /\ pc = "done"
    /\ cfg.command = "full"
    /\ ~prev.ran
    /\ ~cfg.retain_managed_policies
    /\ cfg' = [cfg EXCEPT !.retain_managed_policies = TRUE]
    /\ json' = NoStore
    /\ prev' = [ran |-> TRUE, tree |-> tf, registry |-> env.registry]
    /\ pc' = "f_start"
    /\ UNCHANGED <<sanIn, sanOnce, sanTwice, returned, src, env, mem, tf, wrote>>

\* a record without one of its fields
Drop(record, field) == [f \in DOMAIN record \ {field} |-> record[f]]

\* what may have happened to the record store between a fetch run and a generate
\* command: a record file written without a field, a namespace folder removed
FieldEdits ==
    {[kind |-> "field", ns |-> e[1], field |-> e[2], gone |-> {}] :
        e \in {<<"users", "ImportId">>, <<"groups", "DisplayName">>,
                <<"permission_sets", "SessionDuration">>, <<"account_assignments", "PrincipalName">>}}

FolderEdits ==
    {[kind |-> "folder", ns |-> "", field |-> "", gone |-> g] :
        g \in {{"users"}, {"groups"}, {"group_memberships"}, {"accounts"}, {"account_assignments"},
               {"permission_sets", "permission_sets/inline_policies"},
               {"managed_policies", "managed_policies/policies"},
               {"team/dynamodb_items/approvers"}, {"team/dynamodb_items/eligibility"}}}

\* the generate command run over a record store that was edited after the fetch
\* (explored for the local platform, without retained policies)
generate_over_edited_store ==
    /\ pc = "done"
    /\ cfg.command = "fetch"
    /\ ~prev.ran
    /\ cfg.platform = "local" /\ ~cfg.retain_managed_policies
    /\ \E edit \in FieldEdits \cup FolderEdits :
          IF edit.kind = "field"
          THEN /\ edit.ns \in DOMAIN json
               /\ \E name \in DOMAIN json[edit.ns] :
                     /\ edit.field \in DOMAIN json[edit.ns][name]
                     /\ json' = [json EXCEPT ![edit.ns][name] = Drop(@, edit.field)]
          ELSE /\ edit.gone \subseteq DOMAIN json
               /\ json' = [n \in DOMAIN json \ edit.gone |-> json[n]]
    /\ cfg' = [cfg EXCEPT !.command = "generate"]
    /\ prev' = [ran |-> TRUE, tree |-> tf, registry |-> env.registry]
    /\ pc' = "g_start"
    /\ UNCHANGED <<sanIn, sanOnce, sanTwice, returned, src, env, mem, tf, wrote>>

\* a directory service without instance
NoInstanceSnapshot == [DefaultSnapshot EXCEPT !.instances = <<>>]

\* settings that Config.validate rejects: the tfc platform without organization, and
\* a state_mode that is neither single nor multi
InvalidConfigs ==
    {[c EXCEPT !.platform = "tfc", !.tfc_org = ""] : c \in BaseConfigs}
    \cup {[c EXCEPT !.state_mode = "bogus"] : c \in BaseConfigs}
    \cup {[c EXCEPT !.command = "full", !.platform = "tfc", !.tfc_org = ""] : c \in BaseConfigs}
    \cup {[c EXCEPT !.command = "full", !.state_mode = "bogus"] : c \in BaseConfigs}

\* the settings of the first run: every mode, retention only for the fetch command
RerunConfigs ==
    {c \in Configs : ~c.auto_update_providers /\ (c.retain_managed_policies => c.command = "fetch")}

InitRerun ==
    /\ sanIn = <<>> /\ sanOnce = NotYet /\ sanTwice = NotYet /\ returned = NotYet
    /\ cfg \in RerunConfigs \cup InvalidConfigs
    /\ src \in {DefaultSnapshot, NoInstanceSnapshot}
    /\ env \in {e \in Envs : e.registry.aws = "5.85.0" /\ e.listing = "asc"}
    /\ pc = "f_start"
    /\ json = NoStore
    /\ mem = NoMem
    /\ tf = NoTree
    /\ wrote = NoWrites
    /\ prev = NoPrev

NextRerun ==
    \/ Next
    \/ switch_settings
    \/ fetch_again
    \/ run_retaining
    \/ generate_over_edited_store

SpecRerun == InitRerun /\ [][NextRerun]_vars

-----------------------------------------------------------------------------
(* Runs over an output directory that holds files written by hand *)

\* the text of a file the generator did not write
HandWritten == [template |-> "", data |-> <<>>]

\* the ways such a file may end
Endings == {<<>>, <<"\n">>, <<"\n", "\n">>, <<" ", "\n">>}

\* the output directory before the first run: one file at its root, in Terraform's
\* native or JSON syntax, or not a Terraform file
KeptTrees ==
    {WriteText(NoTree, "", name, HandWritten, eol) :
        name \in {"backend.tf", "backend.tf.json", "notes.txt"}, eol \in Endings}

InitKept ==
    /\ sanIn = <<>> /\ sanOnce = NotYet /\ sanTwice = NotYet /\ returned = NotYet
    /\ cfg \in {c \in Configs : c.command = "full" /\ c.platform = "local" /\ ~c.enable_team
                                  /\ ~c.retain_managed_policies /\ ~c.auto_update_providers}
    /\ src = DefaultSnapshot
    /\ env \in {e \in Envs : e.registry.aws = "5.85.0" /\ e.listing = "asc"}
    /\ pc = "f_start"
    /\ json = NoStore
    /\ mem = NoMem
    /\ tf \in KeptTrees
    /\ wrote = NoWrites
    /\ prev = NoPrev

SpecKept == InitKept /\ [][Next]_vars

-----------------------------------------------------------------------------
(* The sanitizer on its own *)

sanitize_once ==
    /\ sanOnce = NotYet
    /\ sanOnce' = sanitize_name(sanIn)
    /\ UNCHANGED <<sanIn, sanTwice, returned, cfg, src, env, pc, json, mem, tf, wrote, prev>>

sanitize_again ==
    /\ sanOnce # NotYet /\ sanTwice = NotYet
    /\ sanTwice' = sanitize_name(sanOnce)
    /\ UNCHANGED <<sanIn, sanOnce, returned, cfg, src, env, pc, json, mem, tf, wrote, prev>>

InitSan ==
    /\ sanIn \in SanInputs /\ sanOnce = NotYet /\ sanTwice = NotYet /\ returned = NotYet
    /\ cfg = CHOOSE c \in BaseConfigs : ~c.enable_team
    /\ src = DefaultSnapshot
    /\ env = CHOOSE e \in Envs : e.registry.aws = "5.85.0" /\ e.listing = "asc"
    /\ pc = "sanitize"
    /\ json = NoStore /\ mem = NoMem /\ tf = NoTree /\ wrote = NoWrites /\ prev = NoPrev

NextSan == sanitize_once \/ sanitize_again

SpecSan == InitSan /\ [][NextSan]_vars

-----------------------------------------------------------------------------
(* The properties *)

\* the records a namespace of the record store holds
Records(ns) == IF ns \in DOMAIN json THEN {json[ns][n] : n \in DOMAIN json[ns]} ELSE {}

\* C1: whatever the input string, sanitize_name returns a non-empty string whose first
\* character is a letter or an underscore and whose every character is a letter, a
\* digit, an underscore or a hyphen.
C1_SanitizedNameIsValid == sanOnce # NotYet => ValidName(sanOnce)

\* a string starting with a digit has been sanitized
C1_Witness == sanIn = <<"7", " ", ".">> /\ sanOnce = <<"_", "7", "_", "_">>

\* C2: sanitize_name leaves a string that already is a valid name as it is, and
\* sanitizing the result of sanitize_name again changes nothing.
C2_SanitizeIsIdempotent ==
    /\ (sanOnce # NotYet /\ ValidName(sanIn)) => sanOnce = sanIn
    /\ sanTwice # NotYet => sanTwice = sanOnce

\* a string that needed the leading underscore has been sanitized twice
C2_Witness == sanIn = <<"7", "a">> /\ sanOnce = <<"_", "7", "a">> /\ sanTwice = <<"_", "7", "a">>

\* C3: every account assignment in the record store is for a permission set and an
\* account that the source lists as provisioned for that permission set.
C3_AssignmentsOnlyForProvisionedPairs ==
    \A r \in Records("account_assignments") :
        r.AccountId \in Range(Get(src.provisioned, r.PermissionSetArn, <<>>))

\* assignments have been persisted while the source also holds an assignment on an
\* account the permission set is not provisioned to
C3_Witness ==
    /\ pc = "f_team"
    /\ Records("account_assignments") # {}
    /\ \E i \in DOMAIN src.assignments :
          src.assignments[i].AccountId \notin Range(Get(src.provisioned, src.assignments[i].PermissionSetArn, <<>>))

\* a path of the output tree that belongs to the team component
IsTeamPath(p) ==
    \/ p.dir \in {"team"} \cup Nested("team")
    \/ p.name \in {"aws_team_application_assignments.tf", "aws_team_application_assignments_import.tf",
                   "aws_team_approver_policies.tf", "aws_team_eligibility_policies.tf"}

\* C4: with enable_team false, whatever the other settings, the record store never
\* holds a team namespace and the output tree never holds a team folder, team module
\* copy or team file, and no step of the run writes one.
C4_NoTeamWhenDisabled ==
    ~cfg.enable_team =>
        /\ DOMAIN json \cap TeamNamespaces = {}
        /\ wrote.json \cap TeamNamespaces = {}
        /\ tf.dirs \cap ({"team"} \cup Nested("team")) = {}
        /\ tf.modules = {}
        /\ \A p \in DOMAIN tf.files \cup wrote.tf : ~IsTeamPath(p)

\* a fetch and a generation have run to the end with enable_team false, over a source
\* that holds team tables and a team application
C4_Witness ==
    /\ ~cfg.enable_team /\ cfg.retain_managed_policies /\ cfg.state_mode = "multi"
    /\ pc = "done"
    /\ src.team.tables # <<>> /\ src.team.application # <<>>
    /\ File("identity_store", "aws_identitystore_users.tf") \in DOMAIN tf.files

\* a second generate_terraform run has finished over the record store and settings
\* of the first, with retain_managed_policies disabled
SecondRunDone == pc = "done" /\ prev.ran /\ ~cfg.retain_managed_policies

\* C5 as stated: with a fixed record store and fixed settings, retain_managed_policies
\* disabled, the second of two consecutive generate_terraform runs leaves the same
\* output tree as the first: the same paths with the same content
C5_Original == SecondRunDone => tf = prev.tree

\* C5, amended: the second run leaves the same output tree as the first provided the
\* provider registry reported the same latest versions to both runs, which is always
\* so when auto_update_providers is off and the pinned versions are used
C5_RebuildIsDeterministic ==
    (SecondRunDone /\ (cfg.auto_update_providers => env.registry = prev.registry)) => tf = prev.tree

\* both runs asked the registry, got the same answer, and wrote the provider files
\* from it, the second run listing the record files in the other order
C5_Witness ==
    /\ SecondRunDone
    /\ cfg.auto_update_providers /\ cfg.state_mode = "multi"
    /\ env.registry = prev.registry /\ env.registry.aws = "6.0.0"
    /\ env.listing = "desc"
    /\ File("identity_store", "providers.tf") \in DOMAIN tf.files
    /\ File("identity_store", "aws_identitystore_users.tf") \in DOMAIN tf.files

\* the persisted records of a namespace whose field holds the id
RecordsOf(ns, field, id) == {r \in Records(ns) : r[field] = id}

\* the persisted user or group records an assignment's principal resolves to
PrincipalRecords(r) ==
    IF r.PrincipalType = L_USER THEN RecordsOf("users", "UserId", r.PrincipalId)
    ELSE IF r.PrincipalType = L_GROUP THEN RecordsOf("groups", "GroupId", r.PrincipalId)
    ELSE {}

\* C6: every persisted group membership is named
\* sanitize_name(group.ResourceName + "___" + user.ResourceName), group and user
\* being the persisted records the membership links
C6_MembershipResourceName ==
    \A r \in Records("group_memberships") :
        \A g \in RecordsOf("groups", "GroupId", r.GroupId) :
            \A u \in RecordsOf("users", "UserId", r.MemberId.UserId) :
                r.ResourceName = sanitize_name(g.ResourceName \o L_sep \o u.ResourceName)

\* the membership of user "7x" in group "E T" is persisted: both names change under
\* sanitize_name, the user's by a leading underscore
C6_Witness ==
    \E r \in Records("group_memberships") :
        /\ r.GroupId = G1 /\ r.MemberId.UserId = U2
        /\ RecordsOf("groups", "GroupId", G1) # {} /\ RecordsOf("users", "UserId", U2) # {}
        /\ r.ResourceName = <<"E","_","T","_","_","_","_","7","x">>

\* the display name of a permission set record: its OriginalName where it has one
PermissionSetDisplayName(ps) == IF "OriginalName" \in DOMAIN ps THEN ps.OriginalName ELSE ps.Name

\* the key inside the ImportTo of a membership and of an assignment
MembershipKeyIs(r, group_name, user_name) ==
    r.ImportTo = L_membership_addr \o group_name \o L_sep \o user_name \o L_key_close

AssignmentKeyIs(r, account_name, permission_set_name, principal_name) ==
    r.ImportTo = L_assignment_addr \o account_name \o L_sep \o permission_set_name \o L_sep
                 \o r.PrincipalType \o L_sep \o principal_name \o L_key_close

\* the keys of the memberships are built from the OriginalNames of group and user
MembershipKeysFromOriginalNames ==
    \A r \in Records("group_memberships") :
        \A g \in RecordsOf("groups", "GroupId", r.GroupId) :
            \A u \in RecordsOf("users", "UserId", r.MemberId.UserId) :
                MembershipKeyIs(r, g.OriginalName, u.OriginalName)

KnownUserIds == {src.users[i].UserId : i \in DOMAIN src.users}
KnownGroupIds == {src.groups[i].GroupId : i \in DOMAIN src.groups}
KnownAccountIds == {src.accounts[i].Id : i \in {j \in DOMAIN src.accounts : src.accounts[j].Status = "ACTIVE"}}

\* the placeholder name that carries the id
Placeholder(kind, id) == kind \o <<"_">> \o id

\* C8: a group, user or account id absent from the fetched maps gives the record the
\* placeholder name UnknownUser_<id>, UnknownGroup_<id> or UnknownAccount_<id>, in
\* fetch_group_memberships as in fetch_account_assignments, so that two different
\* unresolved ids never get the same placeholder name
C8_PlaceholdersCarryTheId ==
    /\ \A r \in Records("group_memberships") :
          /\ r.MemberId.UserId \notin KnownUserIds
                => r.UserOriginalName = Placeholder(L_UnknownUser, r.MemberId.UserId)
          /\ r.GroupId \notin KnownGroupIds
                => r.GroupOriginalName = Placeholder(L_UnknownGroup, r.GroupId)
    /\ \A r1, r2 \in Records("group_memberships") :
          (/\ r1.MemberId.UserId \notin KnownUserIds /\ r2.MemberId.UserId \notin KnownUserIds
           /\ r1.MemberId.UserId # r2.MemberId.UserId) => r1.UserOriginalName # r2.UserOriginalName
    /\ \A r \in Records("account_assignments") :
          /\ r.AccountId \notin KnownAccountIds
                => r.AccountName = Placeholder(L_UnknownAccount, r.AccountId)
          /\ (r.PrincipalType = L_USER /\ r.PrincipalId \notin KnownUserIds)
                => r.PrincipalName = Placeholder(L_UnknownUser, r.PrincipalId)
          /\ (r.PrincipalType = L_GROUP /\ r.PrincipalId \notin KnownGroupIds)
                => r.PrincipalName = Placeholder(L_UnknownGroup, r.PrincipalId)

\* the import-type tasks: those whose output name holds "_import"
ImportTasks == {TERRAFORM_GENERATION_TASKS[i] : i \in {j \in DOMAIN TERRAFORM_GENERATION_TASKS :
                                                          TERRAFORM_GENERATION_TASKS[j].is_import}}

\* the records of a list, or of the lists of a dict, handed to rendering
ItemsOf(data) == IF IsDict(data) THEN UNION {Range(data[i].value) : i \in DOMAIN data} ELSE Range(data)

\* where the file of a task is written: the root for an import task in single-state
\* mode, the component folder otherwise
PathOf(task) == File(IF is_single_state /\ task.is_import THEN "" ELSE task.output_folder, task.output_name)

\* the records a task handed to the rendering of its file
Handed(task) ==
    IF PathOf(task) \in DOMAIN tf.files THEN ItemsOf(tf.files[PathOf(task)].text.data[task.data_key]) ELSE {}

\* C9: every ImportTo handed to rendering by an import-type task of component folder F
\* is "module." + F + "." + the persisted ImportTo in single-state mode, and the
\* persisted ImportTo itself in multi-state mode
C9_ImportToModulePrefix ==
    \A task \in ImportTasks :
        \A item \in Handed(task) :
            "ImportTo" \in DOMAIN item =>
                \E r \in Records(task.json_dir) :
                    /\ r.ImportId = item.ImportId
                    /\ item.ImportTo = (IF is_single_state THEN L_module \o Chars(task.output_folder) \o <<".">>
                                        ELSE <<>>) \o r.ImportTo

\* a single-state run is done and handed the import of permission set "a.b" on as
\* module.permission_sets.aws_ssoadmin_permission_set.a_b
C9_Witness ==
    /\ pc = "done" /\ cfg.state_mode = "single"
    /\ \E task \in ImportTasks :
          /\ task.output_name = "aws_ssoadmin_permission_sets_import.tf"
          /\ \E item \in Handed(task) :
                item.ImportTo = L_module \o Chars("permission_sets") \o <<".">>
                                \o <<"a","w","s","_","s","s","o","a","d","m","i","n","_","p","e","r","m","i","s","s","i","o","n","_","s","e","t",".">>
                                \o <<"a","_","b">>

\* the tasks of the output tree are done in the current run (the fetch command ends
\* without a generation run)
TasksDone ==
    \/ pc \in {"g_team", "g_copy", "g_root", "g_newline", "g_headers"}
    \/ pc = "done" /\ cfg.command # "fetch"

\* the membership r is among the memberships a membership file was rendered from
PlacedIn(folder, name, r) ==
    /\ File(folder, name) \in DOMAIN tf.files
    /\ \E item \in ItemsOf(tf.files[File(folder, name)].text.data["memberships"]) : item.ImportId = r.ImportId

InMap(r) == PlacedIn("identity_store", "aws_identitystore_group_memberships_map.tf", r)
InScimMap(r) == PlacedIn("identity_store", "aws_identitystore_group_memberships_map_scim.tf", r)
InImport(r) ==
    PlacedIn(IF is_single_state THEN "" ELSE "identity_store", "aws_identitystore_group_memberships_import.tf", r)

\* C10: a membership's SCIM flag is its group's; a membership of a non-SCIM group is
\* in the imported membership map and the membership import file and never in the
\* SCIM-managed map; a membership of a SCIM group is in the SCIM-managed map only
C10_MembershipFollowsGroupScim ==
    \A r \in Records("group_memberships") :
        \A g \in RecordsOf("groups", "GroupId", r.GroupId) :
            /\ r.SCIM = g.SCIM
            /\ ~g.SCIM => (~InScimMap(r) /\ (TasksDone => (InMap(r) /\ InImport(r))))
            /\ g.SCIM => (~InMap(r) /\ ~InImport(r) /\ (TasksDone => InScimMap(r)))

\* a run is done with SCIM user "j.d" a member of the non-SCIM group "E T" and the
\* non-SCIM user "7x" a member of the SCIM group "ops"
C10_Witness ==
    /\ pc = "done"
    /\ \E r \in Records("group_memberships") :
          /\ r.GroupId = G1 /\ r.MemberId.UserId = U1 /\ ~r.SCIM
          /\ \E u \in RecordsOf("users", "UserId", U1) : u.SCIM
          /\ InMap(r) /\ InImport(r)
    /\ \E r \in Records("group_memberships") :
          /\ r.GroupId = G2 /\ r.MemberId.UserId = U2 /\ r.SCIM
          /\ \E u \in RecordsOf("users", "UserId", U2) : ~u.SCIM
          /\ InScimMap(r)

\* the whole-directory templates of the current run are rendered
TemplatesDone ==
    \/ pc \in {"g_files", "g_team", "g_copy", "g_root", "g_newline", "g_headers"}
    \/ pc = "done" /\ cfg.command # "fetch"

\* the subfolders as a set
ActiveSubfolders == Range(get_active_subfolders)

\* the artifacts of a component's templates that have a base template and a variant
ArtifactsWithVariants(subfolder) ==
    {t.base : t \in {x \in TemplateFiles(subfolder) :
                        /\ x.variant # "" /\ Template(x.base, "") \in TemplateFiles(subfolder)
                        /\ TemplateName(Template(x.base, "")) \notin skip_templates}}

\* the variant the mode prefers: _local in single-state, _remote_state in multi-state
\* local, each when it exists, otherwise the base template
Preferred(subfolder, base) ==
    LET source == TemplateFiles(subfolder)
    IN IF is_single_state /\ Template(base, "_local") \in source THEN Template(base, "_local")
       ELSE IF is_multi_state /\ is_local /\ Template(base, "_remote_state") \in source
       THEN Template(base, "_remote_state")
       ELSE Template(base, "")

\* the destination <base>.tf of an artifact holds the rendering of template t
RenderedFrom(subfolder, base, t) ==
    /\ File(subfolder, base \o ".tf") \in DOMAIN tf.files
    /\ tf.files[File(subfolder, base \o ".tf")].text.template = TemplateName(t)

\* no two rendered templates of a component share a destination, and no file of the
\* output tree is named after a template with its _local or _remote_state suffix
OneTemplatePerDestination ==
    /\ \A subfolder \in ActiveSubfolders :
          \A t1, t2 \in {t \in TemplateFiles(subfolder) : IsCopied(t, TemplateFiles(subfolder))} :
              new_name(t1) = new_name(t2) => t1 = t2
    /\ \A subfolder \in Range(SSOADMIN_SUBFOLDERS) :
          \A t \in TemplateFiles(subfolder) :
              \A v \in {"_local", "_remote_state"} :
                  File(subfolder, t.base \o v \o ".tf") \notin DOMAIN tf.files

\* C11 as stated: every artifact with a base template and variants is rendered once a
\* run, to <base>.tf, from the _local variant in single-state mode when it exists, from
\* the _remote_state variant in multi-state local mode when it exists, otherwise from
\* the base template; no destination is written twice and no emitted name keeps a suffix
C11_Original ==
    /\ OneTemplatePerDestination
    /\ TemplatesDone =>
          \A subfolder \in ActiveSubfolders :
              \A base \in ArtifactsWithVariants(subfolder) :
                  RenderedFrom(subfolder, base, Preferred(subfolder, base))

\* the artifact has no _local variant and single-state mode skips its base template
SkippedInSingleState(subfolder, base) ==
    /\ is_single_state
    /\ Template(base, "_local") \notin TemplateFiles(subfolder)
    /\ TemplateName(Template(base, "")) \in skip_in_single_state

\* C11, amended: as stated, except that in single-state mode an artifact without a
\* _local variant whose base template is in the single-state skip set (external) is
\* not rendered at all
C11_VariantPreference ==
    /\ OneTemplatePerDestination
    /\ \A subfolder \in ActiveSubfolders :
          \A base \in ArtifactsWithVariants(subfolder) :
              IF SkippedInSingleState(subfolder, base)
              THEN File(subfolder, base \o ".tf") \notin DOMAIN tf.files
              ELSE TemplatesDone => RenderedFrom(subfolder, base, Preferred(subfolder, base))

\* a single-state run is done: the managed policy attachments come from the _local
\* variant and no external.tf is there; the artifact has all three templates
C11_Witness ==
    /\ pc = "done" /\ cfg.state_mode = "single" /\ cfg.command # "fetch"
    /\ "aws_ssoadmin_managed_policy_attachments" \in ArtifactsWithVariants("permission_sets")
    /\ "external" \in ArtifactsWithVariants("permission_sets")
    /\ RenderedFrom("permission_sets", "aws_ssoadmin_managed_policy_attachments",
                    Template("aws_ssoadmin_managed_policy_attachments", "_local"))
    /\ File("permission_sets", "external.tf") \notin DOMAIN tf.files

\* the root-wiring files are in the output tree only in single-state mode
RootWiringOnlyInSingleState ==
    \A name \in {"main.tf", "providers.tf"} : File("", name) \in DOMAIN tf.files => cfg.state_mode = "single"

\* a component folder holds input-variable declarations
HasVariables == \E subfolder \in Range(SSOADMIN_SUBFOLDERS) : File(subfolder, "variables.tf") \in DOMAIN tf.files

C12_WitnessMulti ==
    /\ pc = "done" /\ cfg.state_mode = "multi" /\ cfg.command # "fetch"
    /\ File("permission_sets", "external.tf") \in DOMAIN tf.files
    /\ ~HasVariables /\ File("", "main.tf") \notin DOMAIN tf.files

-----------------------------------------------------------------------------
(* C13: files of another mode *)

\* Config.validate: TRUE when it returns, FALSE when it raises ConfigValidationError
validate ==
    /\ cfg.state_mode \in {"single", "multi"}
    /\ cfg.platform \in {"local", "tfc"}
    /\ ~(cfg.platform = "tfc" /\ cfg.tfc_org = "")

\* a generation run has completed
GenerateCompleted == pc = "done" /\ cfg.command # "fetch"

\* the names of the import files that generation writes
ImportFileNames ==
    {task.output_name : task \in ImportTasks}
    \cup {"aws_team_application_assignments_import.tf"}

\* the file at path p is one that the current state_mode and enable_team produce:
\* root wiring and root import files belong to single-state mode, as do the variables
\* of a component; the cross-state lookups and the providers of a component belong
\* to multi-state mode; team files need enable_team
AppliesToMode(p) ==
    /\ (p.dir = "" /\ p.name \in {"main.tf", "providers.tf"} \cup ImportFileNames) => is_single_state
    /\ (p.dir \in Range(SSOADMIN_SUBFOLDERS) /\ p.name = "variables.tf") => is_single_state
    /\ (p.dir \in Range(SSOADMIN_SUBFOLDERS) /\ p.name \in {"external.tf", "providers.tf"}) => ~is_single_state
    /\ IsTeamPath(p) => is_team_enabled

\* C13: after generate_terraform completes, no root or subfolder file of a mode other
\* than the current one (state_mode, platform, enable_team), left by an earlier run
\* under other settings, remains in the output tree
C13_NoStaleModeFiles ==
    (GenerateCompleted /\ validate) => \A p \in DOMAIN tf.files : AppliesToMode(p)

-----------------------------------------------------------------------------
(* C14: settings that do not validate *)

\* C14: with settings that Config.validate rejects (state_mode neither single nor
\* multi, platform neither local nor tfc, or platform tfc with an empty tfc_org) the
\* run ends before any record is fetched, any directory deleted or any file written
C14_InvalidConfigStopsTheRun ==
    ~validate => (json = NoStore /\ tf = NoTree /\ wrote = NoWrites)

-----------------------------------------------------------------------------
(* C15: a directory service without instance *)

\* C15: when the identity-directory service returns no instance the whole run ends
\* there: in the combined command no generation step runs afterwards, so that no
\* output folder is cleaned and no file is written
C15_NoInstanceEndsTheRun ==
    (validate /\ src.instances = <<>>) => (tf = NoTree /\ wrote.tf = {})

-----------------------------------------------------------------------------
(* C16: the record store at the start of a fetch run *)

\* a fetch run has completed and no later command has run
FetchCompleted == pc \in {"g_start", "done"} /\ cfg.command \in {"full", "fetch"}

\* C16: every fetch run starts by wiping all namespaces of the record store, keeping
\* with retain_managed_policies the managed-policy namespace and only it; hence after
\* any fetch run the store holds no record of a user deleted from the directory
C16_NoStaleRecordAfterFetch ==
    (validate /\ FetchCompleted) => \A r \in Records("users") : r.UserId \in KnownUserIds

-----------------------------------------------------------------------------
(* C17: the loaders on their own *)

MaxFiles == 3

\* sanitized names of records: one a prefix of another, two that differ in case only
LoadNames ==
    {<<"a">>, <<"a", "-", "b">>, <<"a", "_", "b">>, <<"a", "b">>, <<"A", "b">>, <<"B">>, <<"b", "-">>, <<"c", "1">>}

\* a namespace with one record file per name
DirOf(names) == [n \in names |-> [ResourceName |-> n]]

\* the loaders of generation called on a namespace of the record store
load_records ==
    /\ pc = "load"
    /\ returned' = [users |-> load_json_files("users", {"ResourceName"}, FALSE).value,
                  account_assignments |-> load_account_assignments("account_assignments", {}).value]
    /\ pc' = "loaded"
    /\ UNCHANGED <<sanIn, sanOnce, sanTwice, cfg, src, env, json, mem, tf, wrote, prev>>

InitLoad ==
    /\ sanIn = <<>> /\ sanOnce = NotYet /\ sanTwice = NotYet /\ returned = NotYet
    /\ cfg = CHOOSE c \in BaseConfigs : ~c.enable_team
    /\ src = DefaultSnapshot
    /\ env \in {e \in Envs : e.registry.aws = "5.85.0"}
    /\ pc = "load"
    /\ \E names \in {N \in SUBSET LoadNames : Cardinality(N) \in 1..MaxFiles} :
          json = [ns \in {"users", "account_assignments"} |-> DirOf(names)]
    /\ mem = NoMem /\ tf = NoTree /\ wrote = NoWrites /\ prev = NoPrev

NextLoad == load_records

SpecLoad == InitLoad /\ [][NextLoad]_vars

\* the names of the records a loader returned, in the order returned
NamesOf(records) == [i \in DOMAIN records |-> records[i].ResourceName]

\* the records of the namespace, each once
AllOf(ns, records) ==
    Len(records) = Cardinality(DOMAIN json[ns]) /\ Range(NamesOf(records)) = DOMAIN json[ns]

\* no name of the sequence sorts before an earlier one by the key
InOrderOf(names, Key(_)) ==
    \A i, j \in DOMAIN names : i < j => ~StrLess(Key(names[j]), Key(names[i]))

\* C17 as stated: every loader returns the records of a namespace in ascending
\* case-insensitive lexical order of their sanitized names, whatever the names
C17_Original ==
    pc = "loaded" =>
        \A ns \in DOMAIN returned :
            AllOf(ns, returned[ns]) /\ InOrderOf(NamesOf(returned[ns]), LAMBDA n : Lower(n))

\* C17, amended: every loader returns the records of a namespace, each once, in
\* ascending order of the lower-cased name of the record file, which is the sanitized
\* name followed by ".json"
C17_OrderOfFileNames ==
    pc = "loaded" =>
        \A ns \in DOMAIN returned :
            AllOf(ns, returned[ns]) /\ InOrderOf(NamesOf(returned[ns]), LAMBDA n : Lower(n \o L_json))

\* the loaders returned "a-b" before "a": the order of a-b.json and a.json
C17_Witness ==
    /\ pc = "loaded"
    /\ \E i, j \in DOMAIN returned.users :
          i < j /\ returned.users[i].ResourceName = <<"a", "-", "b">> /\ returned.users[j].ResourceName = <<"a">>

-----------------------------------------------------------------------------
(* C18: the order of preserving, cleaning and writing *)

\* the names of the managed policies that the generated list, or else the generated
\* map, of a tree holds
PolicyNamesIn(tree) ==
    LET list_file == File("managed_policies", "aws_iam_managed_policies_list.tf")
        map_file == File("managed_policies", "aws_iam_managed_policies_map.tf")
        source_file == IF list_file \in DOMAIN tree.files THEN list_file ELSE map_file
    IN IF source_file \in DOMAIN tree.files
       THEN {p.PolicyName : p \in Range(ParsePolicies(tree.files[source_file]))}
       ELSE {}

\* the component folder is there and holds nothing
IsEmptyFolder(folder) ==
    /\ folder \in tf.dirs
    /\ \A p \in DOMAIN tf.files : p.dir \notin {folder} \cup Nested(folder)

-----------------------------------------------------------------------------
(* C19: the enrichment passes of the permission sets *)

\* the fields the four passes add, in the order of the passes
EnrichmentFields == <<"HasInlinePolicy", "ManagedPolicies", "CustomerManagedPolicies", "Tags">>

\* the number of passes that have ended at a point of the fetch run; 0 before the
\* first pass and outside the passes
PassesEnded ==
    CASE pc = "f_managed_policy_attachments" -> 1
      [] pc = "f_customer_managed_policy_attachments" -> 2
      [] pc = "f_permission_set_tags" -> 3
      [] pc = "f_account_assignments" -> 4
      [] OTHER -> 0

\* every permission set has one persisted record, and each record holds the fields
\* of the first n passes and of no later pass
PersistedThrough(n) ==
    /\ \A i \in DOMAIN src.permission_sets :
          RecordsOf("permission_sets", "PermissionSetArn", src.permission_sets[i].PermissionSetArn) # {}
    /\ \A r \in Records("permission_sets") :
          \A k \in DOMAIN EnrichmentFields : (EnrichmentFields[k] \in DOMAIN r) <=> (k <= n)

\* the same of the records held in memory
InMemoryThrough(n) ==
    \A i \in DOMAIN mem.permission_sets :
        \A k \in DOMAIN EnrichmentFields : (EnrichmentFields[k] \in DOMAIN mem.permission_sets[i]) <=> (k <= n)

\* C19 as stated: the passes run in the order inline policy, managed attachments,
\* customer-managed attachments, tags, and when a pass ends the persisted record of
\* every permission set holds the field of that pass and of all earlier passes
C19_Original ==
    PassesEnded > 0 => PersistedThrough(PassesEnded)

\* C19, amended: the passes run in that order; the inline-policy pass sets
\* HasInlinePolicy in memory only and persists the policy documents, and each of the
\* three later passes re-persists the records, so that from the end of the
\* managed-attachments pass on the persisted record of every permission set holds the
\* field of every pass that has ended
C19_PassesRePersist ==
    /\ PassesEnded > 0 => InMemoryThrough(PassesEnded)
    /\ PassesEnded = 1 => PersistedThrough(0)
    /\ PassesEnded > 1 => PersistedThrough(PassesEnded)

\* the last pass has ended over a directory with permission sets, one with tags
C19_Witness ==
    /\ PassesEnded = 4
    /\ \E r \in Records("permission_sets") : r.Tags # <<>> /\ r.HasInlinePolicy

-----------------------------------------------------------------------------
(* C20: the maps are built before names are resolved *)

\* the users and groups are persisted and their id-to-name maps hold every id
UsersAndGroupsMapped ==
    /\ DOMAIN mem.users_map = KnownUserIds
    /\ DOMAIN mem.groups_map = KnownGroupIds
    /\ \A id \in KnownUserIds : RecordsOf("users", "UserId", id) # {}
    /\ \A id \in KnownGroupIds : RecordsOf("groups", "GroupId", id) # {}

\* the same of the active accounts and the permission sets
AccountsAndPermissionSetsMapped ==
    /\ DOMAIN mem.accounts_map = KnownAccountIds
    /\ DOMAIN mem.permission_sets_map = {src.permission_sets[i].PermissionSetArn : i \in DOMAIN src.permission_sets}
    /\ \A id \in KnownAccountIds : RecordsOf("accounts", "Id", id) # {}

\* the user of a persisted membership, where the directory knows the user
HasKnownUser(r) == "UserId" \in DOMAIN r.MemberId /\ r.MemberId.UserId \in KnownUserIds

\* C20: in every fetch run the users and groups are normalized and their maps complete
\* when memberships are resolved, and so are the accounts and permission sets when
\* assignments are resolved; no membership or assignment of a known user, group or
\* account is named by a placeholder of a partially built map
C20_MapsBeforeResolution ==
    /\ pc = "f_group_memberships" => UsersAndGroupsMapped
    /\ pc = "f_account_assignments" => (UsersAndGroupsMapped /\ AccountsAndPermissionSetsMapped)
    /\ \A r \in Records("group_memberships") :
          /\ HasKnownUser(r) => \E u \in RecordsOf("users", "UserId", r.MemberId.UserId) :
                                    r.UserOriginalName = u.OriginalName
          /\ r.GroupId \in KnownGroupIds => \E g \in RecordsOf("groups", "GroupId", r.GroupId) :
                                                r.GroupOriginalName = g.OriginalName
    /\ \A r \in Records("account_assignments") :
          /\ (r.PrincipalType = L_USER /\ r.PrincipalId \in KnownUserIds)
                => r.PrincipalName # Placeholder(L_UnknownUser, r.PrincipalId)
          /\ (r.PrincipalType = L_GROUP /\ r.PrincipalId \in KnownGroupIds)
                => r.PrincipalName # Placeholder(L_UnknownGroup, r.PrincipalId)
          /\ r.AccountId \in KnownAccountIds => r.AccountName # Placeholder(L_UnknownAccount, r.AccountId)

\* memberships and assignments of known users have been resolved and persisted
C20_Witness ==
    /\ pc = "f_team"
    /\ \E r \in Records("group_memberships") : HasKnownUser(r) /\ r.GroupId \in KnownGroupIds
    /\ \E r \in Records("account_assignments") :
          r.PrincipalType = L_USER /\ r.PrincipalId \in KnownUserIds /\ r.AccountId \in KnownAccountIds

-----------------------------------------------------------------------------
(* C21: a record without a required field *)

\* the tasks the task loop does not skip
EnabledTasks ==
    {task \in Range(TERRAFORM_GENERATION_TASKS) :
        /\ ~(task.output_folder = "team" /\ ~is_team_enabled)
        /\ ~(task.template_name = "aws_iam_managed_policies_list.tf.jinja" /\ ~use_managed_policy_data_sources)}

\* KeyError(f"[ERROR] Missing '{field}' in {json_file}"): the field and the record
\* file the error of a task may name, the first file in loading order that lacks a
\* required field, with a field it lacks
KeyErrors(task) ==
    IF task.json_dir \notin DOMAIN json THEN {}
    ELSE LET dir == json[task.json_dir]
         IN IF \A n \in DOMAIN dir : task.required_fields \subseteq DOMAIN dir[n] THEN {}
            ELSE LET files == sorted_files(dir)
                     lacking == {i \in DOMAIN files : ~(task.required_fields \subseteq DOMAIN dir[files[i]])}
                     first == CHOOSE i \in lacking : \A j \in lacking : i <= j
                 IN {[field |-> f, record |-> files[first] \o L_json] :
                        f \in task.required_fields \ DOMAIN dir[files[first]]}

\* the generate command is running, or has run, over an edited record store
OverEditedStore == prev.ran /\ cfg.command = "generate" /\ validate

\* the points of a generation run after the task loop
PastTheTasks == {"g_team", "g_copy", "g_root", "g_newline", "g_headers", "done"}

\* C21: when a record loaded for a generation task lacks one of the task's required
\* fields, the task fails with an error that names the field and the record, the run
\* does not go on past the task loop, and the output file of the task is not written
C21_MissingFieldFailsTheTask ==
    \A task \in EnabledTasks :
        (OverEditedStore /\ KeyErrors(task) # {}) =>
            /\ pc \notin PastTheTasks
            /\ PathOf(task) \notin DOMAIN tf.files
            /\ \A e \in KeyErrors(task) :
                  \E n \in DOMAIN json[task.json_dir] :
                      e.record = n \o L_json /\ e.field \notin DOMAIN json[task.json_dir][n]

\* the run failed in the task loop at the users import task, whose record lacks
\* ImportId, after the tasks before it wrote their files
C21_Witness ==
    /\ OverEditedStore /\ pc = "failed"
    /\ \E task \in EnabledTasks :
          task.output_name = "aws_identitystore_users_import.tf" /\ KeyErrors(task) # {}
    /\ File("identity_store", "aws_identitystore_users_map.tf") \in DOMAIN tf.files


(* C22: a namespace missing from the record store *)

\* the namespaces of core identity data
CoreNamespaces ==
    {"users", "groups", "group_memberships", "permission_sets", "account_assignments", "accounts"}

\* the namespaces of the team approver and eligibility policies
TeamItemNamespaces == {"team/dynamodb_items/approvers", "team/dynamodb_items/eligibility"}

\* the enabled tasks that read a namespace
ConsumersOf(namespace) == {task \in EnabledTasks : task.json_dir = namespace}

\* the generate command is running, or has run, over a record store left by an
\* earlier run
OverOldStore == prev.ran /\ cfg.command = "generate" /\ validate

\* C22: a namespace missing from the record store is handled per call site: the team
\* approver and eligibility policy tasks, with enable_team true, take it as an empty
\* sequence and the run does not fail, while a missing namespace of core identity
\* data keeps the run from going past the task loop
C22_MissingNamespacePerCallSite ==
    OverOldStore =>
        /\ \A namespace \in CoreNamespaces \ DOMAIN json :
              ConsumersOf(namespace) # {} => pc \notin PastTheTasks
        /\ (is_team_enabled /\ CoreNamespaces \subseteq DOMAIN json
               /\ \A task \in EnabledTasks : KeyErrors(task) = {}) =>
              \A namespace \in TeamItemNamespaces \ DOMAIN json :
                  ConsumersOf(namespace) # {} => pc # "failed"


(* C23: one newline at the end of every Terraform file *)

\* the *.tf and *.tf.json files of the output tree
TerraformFiles == {p \in DOMAIN tf.files : EndsWith(p.name, ".tf") \/ EndsWith(p.name, ".tf.json")}

\* C23: once generate_terraform has completed, its header step included, every *.tf
\* and *.tf.json file of the output tree ends with exactly one newline, with no other
\* whitespace before it
C23_OneNewlineAtEnd ==
    GenerateCompleted => \A p \in TerraformFiles : tf.files[p].eol = L_newline


-----------------------------------------------------------------------------
(* C24: the configuration on its own *)

\* Python values of the settings: None, booleans and strings
None == [type |-> "NoneType", repr |-> "None"]
Bool(b) == [type |-> "bool", repr |-> IF b THEN "True" ELSE "False"]
Str(s) == [type |-> "str", repr |-> s]

DEFAULTS ==
    [verbosity |-> Str("normal"), output |-> Str("./output"), state_mode |-> Str("single"),
     platform |-> Str("local"), tfc_org |-> Str(""), prefix |-> Str("aws-identity-management"),
     environment |-> Str(""), enable_team |-> Bool(FALSE), auto_update_providers |-> Bool(TRUE),
     retain_managed_policies |-> Bool(FALSE)]

\* config_path does not exist
NoFile == [exists |-> FALSE, loads |-> FALSE, keys |-> <<>>]
\* yaml.safe_load raises: the exception is caught and a warning printed
Unreadable == [exists |-> TRUE, loads |-> FALSE, keys |-> <<>>]
\* yaml.safe_load returns a mapping
Mapping(keys) == [exists |-> TRUE, loads |-> TRUE, keys |-> keys]

\* the overrides taken when they are truthy instead of when they are not None
load_config_truthy_overrides(settings_file, overrides) ==
    LET user_config == IF settings_file.exists /\ settings_file.loads THEN settings_file.keys ELSE <<>>
        merged == [key \in DOMAIN DEFAULTS |-> Get(user_config, key, DEFAULTS[key])]
    IN [key \in DOMAIN DEFAULTS |->
           IF key \in DOMAIN overrides /\ overrides[key] \notin {None, Bool(FALSE), Str("")}
           THEN overrides[key] ELSE merged[key]]

\* Config._load_config: the defaults, over them the recognized keys of the settings
\* file, over them the recognized overrides that are not None
load_config(settings_file, overrides) ==
    LET config == DEFAULTS
        user_config == IF settings_file.exists /\ settings_file.loads THEN settings_file.keys ELSE <<>>
        merged == [key \in DOMAIN config |-> IF key \in DOMAIN user_config THEN user_config[key] ELSE config[key]]
    IN [key \in DOMAIN merged |->
           IF key \in DOMAIN overrides /\ overrides[key] # None THEN overrides[key] ELSE merged[key]]

\* the keys a settings file or the command line may carry: two recognized ones and
\* one that is not, each with a falsy and a truthy value
InputValues ==
    [tfc_org |-> {Str(""), Str("org")}, enable_team |-> {Bool(FALSE), Bool(TRUE)}, colour |-> {Str(""), Str("red")}]

\* the mappings from some of the keys to a value allowed for the key
Mappings(allowed) ==
    UNION {{m \in [keys -> UNION {allowed[k] : k \in keys}] : \A k \in keys : m[k] \in allowed[k]} :
              keys \in SUBSET DOMAIN allowed}

SettingsFiles == {NoFile, Unreadable} \cup {Mapping(m) : m \in Mappings(InputValues)}

\* a command-line flag that was not given is passed as None
Overrides == Mappings([k \in DOMAIN InputValues |-> InputValues[k] \cup {None}])

\* Config.__init__
construct_config ==
    /\ pc = "config"
    /\ returned' = load_config(env.settings_file, env.overrides)
    /\ pc' = "configured"
    /\ UNCHANGED <<sanIn, sanOnce, sanTwice, cfg, src, env, json, mem, tf, wrote, prev>>

InitConfig ==
    /\ sanIn = <<>> /\ sanOnce = NotYet /\ sanTwice = NotYet /\ returned = NotYet
    /\ cfg = CHOOSE c \in BaseConfigs : ~c.enable_team
    /\ src = DefaultSnapshot
    /\ env \in [settings_file : SettingsFiles, overrides : Overrides]
    /\ pc = "config"
    /\ json = NoStore /\ mem = NoMem /\ tf = NoTree /\ wrote = NoWrites /\ prev = NoPrev

NextConfig == construct_config

SpecConfig == InitConfig /\ [][NextConfig]_vars

\* an override that is present: given, and not None
PresentOverride(key) == key \in DOMAIN env.overrides /\ env.overrides[key] # None

\* a value present in the settings file
InFile(key) == env.settings_file.exists /\ env.settings_file.loads /\ key \in DOMAIN env.settings_file.keys

\* C24: every recognized key resolves to its override when one is present (not None,
\* be it False or the empty string), otherwise to its value in the settings file when
\* the file has one, otherwise to its default, and no other key is in the configuration
C24_Precedence ==
    pc = "configured" =>
        /\ DOMAIN returned = DOMAIN DEFAULTS
        /\ \A key \in DOMAIN DEFAULTS :
              /\ PresentOverride(key) => returned[key] = env.overrides[key]
              /\ (~PresentOverride(key) /\ InFile(key)) => returned[key] = env.settings_file.keys[key]
              /\ (~PresentOverride(key) /\ ~InFile(key)) => returned[key] = DEFAULTS[key]

\* the override False of enable_team won over True in the settings file, the empty
\* override of tfc_org over "org", and the key colour of both was left out
C24_Witness ==
    /\ pc = "configured"
    /\ PresentOverride("enable_team") /\ env.overrides["enable_team"] = Bool(FALSE)
    /\ InFile("enable_team") /\ env.settings_file.keys["enable_team"] = Bool(TRUE)
    /\ PresentOverride("tfc_org") /\ env.overrides["tfc_org"] = Str("")
    /\ InFile("tfc_org") /\ env.settings_file.keys["tfc_org"] = Str("org")
    /\ PresentOverride("colour") /\ InFile("colour")
    /\ returned["enable_team"] = Bool(FALSE) /\ returned["tfc_org"] = Str("")


-----------------------------------------------------------------------------
(* C25: the workspace names on their own *)

\* the component argument: left out (None), empty, or a name
ComponentArgs ==
    {[given |-> FALSE, name |-> ""]}
    \cup {[given |-> TRUE, name |-> n] : n \in {"", "identity-store", "permission-sets", "team", "x"}}

\* if not component: raise ValueError("component is required for multi-state mode"),
\* in the branch of every state_mode but "single"
component_required(component) ==
    cfg.state_mode # "single" /\ (~component.given \/ component.name = "")

\* Config.get_workspace_name called with a component argument
call_get_workspace_name ==
    /\ pc = "name"
    /\ \E component \in ComponentArgs :
          returned' = IF component_required(component)
                      THEN [component |-> component, raised |-> TRUE, value |-> ""]
                      ELSE [component |-> component, raised |-> FALSE, value |-> get_workspace_name(component.name)]
    /\ pc' = "named"
    /\ UNCHANGED <<sanIn, sanOnce, sanTwice, cfg, src, env, json, mem, tf, wrote, prev>>

InitWorkspace ==
    /\ sanIn = <<>> /\ sanOnce = NotYet /\ sanTwice = NotYet /\ returned = NotYet
    /\ \E base \in {c \in BaseConfigs : ~c.enable_team},
          state_mode \in {"single", "multi"},
          prefix \in {"aws-identity-management", "idc", "a-b"},
          environment \in {"", "prod", "dev-1"} :
          cfg = [base EXCEPT !.state_mode = state_mode, !.prefix = prefix, !.environment = environment]
    /\ src = DefaultSnapshot
    /\ env \in {e \in Envs : e.registry.aws = "5.85.0" /\ e.listing = "asc"}
    /\ pc = "name"
    /\ json = NoStore /\ mem = NoMem /\ tf = NoTree /\ wrote = NoWrites /\ prev = NoPrev

NextWorkspace == call_get_workspace_name

SpecWorkspace == InitWorkspace /\ [][NextWorkspace]_vars

\* the call was made with a component that is neither left out nor empty
WithComponent == returned.component.given /\ returned.component.name # ""

\* what the call does in single-state mode, and in multi-state mode without a
\* component
SingleAndMissing ==
    /\ is_single_state =>
          /\ ~returned.raised
          /\ returned.value = IF cfg.environment = "" THEN cfg.prefix
                              ELSE cfg.prefix \o "-" \o cfg.environment
    /\ (is_multi_state /\ ~WithComponent) => returned.raised

-----------------------------------------------------------------------------
(* C26: the organizational units of deeper and wider hierarchies *)

MaxUnits == 6

UnitId(i) == <<"o", <<"0", "1", "2", "3", "4", "5", "6", "7", "8", "9">>[i + 1]>>

\* the fourth unit is named as the second one
UnitName(i) == <<"O", <<"0", "1", "2", "3", "2", "5", "6", "7", "8", "9">>[i + 1]>>

\* the hierarchies of MaxUnits units in which each unit sits under the root (0) or
\* under one of the two units before it: chains of up to MaxUnits levels among them
Hierarchies ==
    {parent \in [1..MaxUnits -> 0..MaxUnits] :
        \A i \in 1..MaxUnits : parent[i] = 0 \/ (parent[i] < i /\ parent[i] >= i - 2)}

\* what list_organizational_units_for_parent answers in a hierarchy
OuChildrenOf(parent) ==
    LET Kids(p) == SelectSeq([i \in 1..MaxUnits |-> i], LAMBDA i : parent[i] = p)
        Listed(p) == [k \in DOMAIN Kids(p) |-> [Id |-> UnitId(Kids(p)[k]), Name |-> UnitName(Kids(p)[k])]]
    IN [id \in {SrcRoot.Id} \cup {UnitId(i) : i \in 1..MaxUnits} |->
           IF id = SrcRoot.Id THEN Listed(0)
           ELSE Listed(CHOOSE i \in 1..MaxUnits : UnitId(i) = id)]

InitOu ==
    /\ sanIn = <<>> /\ sanOnce = NotYet /\ sanTwice = NotYet /\ returned = NotYet
    /\ cfg = CHOOSE c \in BaseConfigs : ~c.enable_team
    /\ \E parent \in Hierarchies : src = [DefaultSnapshot EXCEPT !.ou_children = OuChildrenOf(parent)]
    /\ env \in {e \in Envs : e.registry.aws = "5.85.0" /\ e.listing = "asc"}
    /\ pc = "f_start"
    /\ json = NoStore /\ mem = NoMem /\ tf = NoTree /\ wrote = NoWrites /\ prev = NoPrev

\* fetch_data up to the organizational units
NextOu ==
    \/ fetch_data_begin
    \/ fetch_sso_admin_instance
    \/ fetch_users
    \/ fetch_groups
    \/ fetch_group_memberships
    \/ fetch_accounts
    \/ fetch_organizational_units

SpecOu == InitOu /\ [][NextOu]_vars

\* the units of the source with the parent each is listed under
SrcUnits ==
    {[Id |-> src.ou_children[p][k].Id, Name |-> src.ou_children[p][k].Name, Parent |-> p] :
        <<p, k>> \in {pk \in (DOMAIN src.ou_children) \X (1..MaxUnits) : pk[2] \in DOMAIN src.ou_children[pk[1]]}}

SrcUnit(id) == CHOOSE u \in SrcUnits : u.Id = id

RECURSIVE Level(_)
\* the level of a unit in the hierarchy of the source, the root being at level 0
Level(id) == IF id = src.root.Id THEN 0 ELSE Level(SrcUnit(id).Parent) + 1

RECURSIVE PathTo(_)
\* the names from the root down to a unit, joined by "/"
PathTo(id) == IF id = src.root.Id THEN src.root.Name ELSE PathTo(SrcUnit(id).Parent) \o <<"/">> \o SrcUnit(id).Name

OusFetched == pc = "f_permission_sets"

\* C26: fetch_organizational_units ends for every hierarchy; it records the root with
\* Depth 0 and each unit with the Depth of its parent plus one and with FullPath =
\* ParentPath + "/" + name, and it records no unit with a Depth above OU_MAX_DEPTH:
\* the units under a unit of that depth are never listed
C26_DepthAndPaths ==
    OusFetched =>
        \A r \in Records("organizational_units") :
            IF r.Id = src.root.Id THEN r.Depth = 0 /\ r.FullPath = src.root.Name
            ELSE /\ r.Depth = Level(r.Id)
                 /\ r.Depth \in 1..OU_MAX_DEPTH
                 /\ r.ParentPath = PathTo(SrcUnit(r.Id).Parent)
                 /\ r.FullPath = r.ParentPath \o <<"/">> \o r.Name
                 /\ \A q \in Records("organizational_units") :
                       q.Id = SrcUnit(r.Id).Parent => r.Depth = q.Depth + 1 /\ r.ParentPath = q.FullPath

\* a chain of six units: the fifth is recorded with Depth 5 under its parent's path,
\* the sixth is not recorded
C26_Witness ==
    /\ OusFetched
    /\ \A i \in 1..6 : Level(UnitId(i)) = i
    /\ \E r \in Records("organizational_units") :
          r.Id = UnitId(5) /\ r.Depth = 5 /\ r.ParentPath = PathTo(UnitId(4))
    /\ \A r \in Records("organizational_units") : r.Id # UnitId(6)


(* C27: the attachments of managed policies *)

\* the tasks that load the managed policy attachments
AttachmentTasks ==
    {task \in Range(TERRAFORM_GENERATION_TASKS) : task.loader = "load_managed_policy_attachments"}

\* C27: for every permission set with at least one attached managed policy, each
\* attachment entry built by load_managed_policy_attachments from the persisted
\* ImportId carries the ARN of that permission set as PermissionSetArn and the ARN of
\* the instance as InstanceArn, and a permission set without managed policies has no
\* entry
C27_AttachmentArns ==
    \A task \in AttachmentTasks :
        PathOf(task) \in DOMAIN tf.files =>
            LET attachments == tf.files[PathOf(task)].text.data[task.data_key]
            IN /\ \A i \in DOMAIN attachments :
                     \E r \in Records("permission_sets") :
                         /\ r.ResourceName = attachments[i].key
                         /\ Len(attachments[i].value) = Len(r.ManagedPolicies)
                         /\ \A j \in DOMAIN attachments[i].value :
                               /\ attachments[i].value[j].PermissionSetArn = r.PermissionSetArn
                               /\ attachments[i].value[j].InstanceArn = src.instances[1].InstanceArn
               /\ \A r \in Records("permission_sets") :
                     Get(r, "ManagedPolicies", <<>>) = <<>> =>
                         \A i \in DOMAIN attachments : attachments[i].key # r.ResourceName


-----------------------------------------------------------------------------
(* C28: memberships persisted and loaded again *)

\* display names of a group: plain, with underscores where the sanitized name has the
\* separator in it, and ending in an underscore
GroupDisplayNames == {<<"E", " ", "T">>, <<"a", "_", "_", "_", "b">>, <<"a", " ", ".", " ", "b">>, <<"g", "_">>}

\* user names: plain, sanitized to a leading underscore, and with the separator
UserDisplayNames == {<<"j", ".", "d">>, <<"7", "x">>, <<"_", "u">>, <<"u", "_", "_", "_", "v">>}

\* the source with the first group and the first user renamed
Renamed(snapshot, group_name, user_name) ==
    [snapshot EXCEPT !.groups[1].DisplayName = group_name, !.users[1].UserName = user_name]

\* load_membership_files called on the memberships that fetch_group_memberships
\* persisted
load_memberships ==
    /\ pc = "f_accounts"
    /\ returned' = load_membership_files("group_memberships").value
    /\ pc' = "loaded"
    /\ UNCHANGED <<sanIn, sanOnce, sanTwice, cfg, src, env, json, mem, tf, wrote, prev>>

InitMembers ==
    /\ sanIn = <<>> /\ sanOnce = NotYet /\ sanTwice = NotYet /\ returned = NotYet
    /\ cfg = CHOOSE c \in BaseConfigs : ~c.enable_team
    /\ \E group_name \in GroupDisplayNames, user_name \in UserDisplayNames,
          memberships \in SubSeqsUpTo(Pick(MembershipPool, {1, 2, 5}), MaxMemberships) :
          src = Renamed(Snapshot(memberships, DefaultProvisioned, DefaultAssignments), group_name, user_name)
    /\ env \in {e \in Envs : e.registry.aws = "5.85.0" /\ e.listing = "asc"}
    /\ pc = "f_start"
    /\ json = NoStore /\ mem = NoMem /\ tf = NoTree /\ wrote = NoWrites /\ prev = NoPrev

\* fetch_data up to the memberships, then the loader
NextMembers ==
    \/ fetch_data_begin
    \/ fetch_sso_admin_instance
    \/ fetch_users
    \/ fetch_groups
    \/ fetch_group_memberships
    \/ load_memberships

SpecMembers == InitMembers /\ [][NextMembers]_vars

\* where in the loaded mapping the entry of a persisted membership is
EntriesOf(r) ==
    {ij \in (DOMAIN returned) \X (1..MaxMemberships) :
        ij[2] \in DOMAIN returned[ij[1]].value /\ returned[ij[1]].value[ij[2]].ImportId = r.ImportId}

\* the ResourceName of the member user of a persisted membership
MemberResourceName(r) == Get(mem.users_map, r.MemberId.UserId, UnknownUserInfo).ResourceName

\* C28: every membership that fetch_group_memberships persisted comes back from
\* load_membership_files as exactly one entry, filed under the OriginalName of its
\* group, whose ResourceName is the ResourceName of the member user, whatever the
\* display names, those whose sanitized form contains "___" included
C28_MembershipRoundTrip ==
    pc = "loaded" =>
        \A r \in Records("group_memberships") :
            /\ Cardinality(EntriesOf(r)) = 1
            /\ \A ij \in EntriesOf(r) :
                  /\ returned[ij[1]].key = r.GroupOriginalName
                  /\ returned[ij[1]].value[ij[2]].ResourceName = MemberResourceName(r)


-----------------------------------------------------------------------------
(* C29: the two artifacts of the account assignments *)

\* assignments of a user on an active account, of a user on the suspended account,
\* and of users of the TEAM- permission set
AssignmentsToGenerate == Pick(AssignmentPool, {1, 5, 7, 9})

\* full runs over every choice of provisioning and of up to MaxAssignments of these
InitAssignments ==
    /\ sanIn = <<>> /\ sanOnce = NotYet /\ sanTwice = NotYet /\ returned = NotYet
    /\ cfg \in {c \in Configs : c.command = "full" /\ c.platform = "local" /\ ~c.enable_team
                                  /\ ~c.retain_managed_policies /\ ~c.auto_update_providers}
    /\ \E p \in ProvisionedChoices, a \in SubSeqsUpTo(AssignmentsToGenerate, MaxAssignments) :
          src = Snapshot(DefaultMemberships, p, a)
    /\ env \in {e \in Envs : e.registry.aws = "5.85.0" /\ e.listing = "asc"}
    /\ pc = "f_start"
    /\ json = NoStore /\ mem = NoMem /\ tf = NoTree /\ wrote = NoWrites /\ prev = NoPrev

SpecAssignments == InitAssignments /\ [][Next]_vars

ImportOfAssignments == File(IF is_single_state THEN "" ELSE "account_assignments", "aws_ssoadmin_account_assignments_import.tf")
MapOfAssignments == File("account_assignments", "aws_ssoadmin_account_assignments_map.tf")

\* both artifacts are written
BothArtifacts == ImportOfAssignments \in DOMAIN tf.files /\ MapOfAssignments \in DOMAIN tf.files

\* the assignment is in the list handed to the import artifact
InImportArtifact(r) ==
    \E item \in ItemsOf(tf.files[ImportOfAssignments].text.data["assignments"]) : item.ImportId = r.ImportId

\* the value of a key of a dict, an empty dict or list without the key
Under(dict, key) == IF HasKey(dict, key) THEN ValueAt(dict, key) ELSE <<>>

\* the principal name of the assignment is under [AccountName][PermissionSetName]
\* [PrincipalType] in the map artifact
InMapArtifact(r) ==
    r.PrincipalName \in
        Range(Under(Under(Under(tf.files[MapOfAssignments].text.data["account_assignments_map"],
                                r.AccountName), r.PermissionSetName), r.PrincipalType))

\* PermissionSetName starts with "TEAM-" or AccountName starts with "UnknownAccount"
Excluded(r) ==
    \/ StartsWith(r.PermissionSetName, <<"T", "E", "A", "M", "-">>)
    \/ StartsWith(r.AccountName, <<"U", "n", "k", "n", "o", "w", "n", "A", "c", "c", "o", "u", "n", "t">>)

\* C29: the import artifact and the map artifact cover the same assignments: an
\* assignment is in the filtered import list exactly when its principal name is under
\* [AccountName][PermissionSetName][PrincipalType] in the map, and both leave out
\* exactly the assignments whose PermissionSetName starts with "TEAM-" or whose
\* AccountName starts with "UnknownAccount"
C29_SameAssignments ==
    BothArtifacts =>
        \A r \in Records("account_assignments") :
            /\ InImportArtifact(r) <=> InMapArtifact(r)
            /\ InImportArtifact(r) <=> ~Excluded(r)

\* both artifacts are written from a store with an assignment of a TEAM- permission
\* set, which neither has, and another assignment, which both have
C29_Witness ==
    /\ BothArtifacts
    /\ \E r \in Records("account_assignments") :
          StartsWith(r.PermissionSetName, <<"T", "E", "A", "M", "-">>) /\ ~InImportArtifact(r) /\ ~InMapArtifact(r)
    /\ \E r \in Records("account_assignments") : InImportArtifact(r) /\ InMapArtifact(r)


(* C30: accounts that are not active *)

\* the ids of the accounts of the source that are ACTIVE
ActiveIds == {src.accounts[i].Id : i \in {j \in DOMAIN src.accounts : src.accounts[j].Status = "ACTIVE"}}

\* the persisted assignments on an account that is not ACTIVE in the source
OnInactiveAccount == {r \in Records("account_assignments") : r.AccountId \notin ActiveIds}

\* C30: no assignment on an account that is not ACTIVE in the source is emitted:
\* fetch_accounts keeps the ACTIVE accounts only, an assignment on any other account
\* is named with the UnknownAccount placeholder, and it is in neither the import
\* artifact nor the map artifact
C30_NoInactiveAccountEmitted ==
    /\ \A r \in Records("accounts") : r.Status = "ACTIVE" /\ r.Id \in ActiveIds
    /\ DOMAIN mem.accounts_map \subseteq ActiveIds
    /\ \A r \in OnInactiveAccount :
          /\ StartsWith(r.AccountName, L_UnknownAccount)
          /\ ImportOfAssignments \in DOMAIN tf.files => ~InImportArtifact(r)
          /\ MapOfAssignments \in DOMAIN tf.files => ~InMapArtifact(r)

\* both artifacts are written from a store that holds an assignment on the suspended
\* account, named with the placeholder, and an assignment on an active account that
\* both artifacts have
C30_Witness ==
    /\ BothArtifacts
    /\ \E r \in OnInactiveAccount : r.AccountId = A3 /\ r.AccountName = L_UnknownAccount \o <<"_">> \o A3
    /\ \E r \in Records("account_assignments") : r.AccountId = A1 /\ InImportArtifact(r) /\ InMapArtifact(r)

=============================================================================
